---- MODULE Spec2Model ----
(***************************************************************************)
(* Roof_Connect: the appointment scheduling and availability-rules engine  *)
(* of src/pages/AppointmentMaker.tsx (isSlotUnavailable, isDateBlocked,    *)
(* the appointment form and its save / delete / re-fetch handlers) over    *)
(* the static tables of src/types.ts, with the remote table store the      *)
(* handlers call.                                                          *)
(*                                                                         *)
(* Conventions.                                                            *)
(*  - Empty ("") stands for every falsy value of a form field, a record    *)
(*    field or a rule field (undefined, null and ''): the code reads them  *)
(*    only through !x, x && ..., x || '' and === against non-empty         *)
(*    strings, which do not tell them apart.                               *)
(*  - A calendar day is its index counted from 2024-01-01 (day 0).         *)
(*    FormatDate gives the YYYY-MM-DD string the code builds from it,      *)
(*    GetDay its weekday and LocalMidnight the instant of its local        *)
(*    midnight in the browser's time zone.                                 *)
(*  - Instants are whole hours (every local midnight of the modelled time  *)
(*    zones is a whole hour), so getTime() differences are hours here and  *)
(*    milliseconds in the code; the quotient by one day is the same.       *)
(*  - The form carries the four required fields of DEFAULT_SCHEMA and one  *)
(*    optional field (notes); the other optional fields behave as notes.   *)
(*  - Regions range over the keys of STATE_CONFIG, the empty value and one *)
(*    unrecognised code ("FL"); names of Object.prototype members (which   *)
(*    STATE_CONFIG[state] would find) are outside the modelled inputs.     *)
(*  - A rule's state is Empty (null in a store row, undefined in a rule    *)
(*    made by the calendar toggle) or a key of STATE_CONFIG; rules whose   *)
(*    state is the empty string are outside the modelled inputs.           *)
(*  - toast holds the message of the last showToast call, shortened; the   *)
(*    clipboard itself is not modelled.                                    *)
(*  - A page is the AppointmentMaker of an agent's browser (a client) or   *)
(*    the ScheduleGrid of the admin's browser; each browser has its own    *)
(*    AuthProvider.  The modelled states are those after the provider's    *)
(*    first load (loading is false).  While a page is not mounted its      *)
(*    state variables hold the initial values of its next mount.           *)
(***************************************************************************)
EXTENDS Integers, Sequences, FiniteSets, TLC

VARIABLES
    appointments,   \* [client -> Seq(AppointmentRecord)]   useState, line 43
    blockedRules,   \* [client -> SUBSET BlockRule]          useState, line 44
    formData,       \* [client -> form record]               useState, line 45
    errors,         \* [client -> SUBSET field ids flagged]  useState, line 86
    schema,         \* [client -> Seq(field id)]             useState, line 42
    toast,          \* [client -> last toast message, or Empty]  line 85
    ops,            \* [client -> set of handler activations suspended at an await]
    srvAppointments,\* the store's appointments table (a set of records)
    srvRules,       \* the store's block_rules table (a set of rules)
    nextId,         \* the next identifier the store assigns
    today,          \* the current calendar day (index) of the browsers' clock
    tz,             \* the browsers' time zone
    grid,           \* the admin's ScheduleGrid page: its useState values, lines 15-27
    gridOps,        \* the ScheduleGrid handler activations suspended at an await
    nextRuleId,     \* the next identifier the store assigns to a block rule
    edit,           \* [client -> isEditModalOpen and editingRecord]  lines 83-84
    user,           \* [page -> role of the profile useAuth() gives, or Empty for null]
    session,        \* [page -> the AuthProvider holds a session (isAuthenticated)]
    mounted,        \* [page -> the page's component is mounted]
    searchQuery,    \* [client -> text of the search box]        useState, line 81
    profileFetches, \* [page -> number of fetchProfile calls waiting at their await]
    authCalls       \* [page -> numbers of logout and updateUser calls not yet ended]

vars == <<appointments, blockedRules, formData, errors, schema, toast, ops,
          srvAppointments, srvRules, nextId, today, tz, user, edit,
          grid, gridOps, nextRuleId, session, mounted, searchQuery, profileFetches,
          authCalls>>

(***************************************************************************)
(* Static tables: src/types.ts and the top of AppointmentMaker.tsx.        *)
(***************************************************************************)
Empty == ""

STATE_CONFIG ==
    [s \in {"GA", "TN", "AL", "SC"} |->
        CASE s = "GA" -> [capacity |-> 9, workdays |-> {1, 2, 3, 4, 5, 6}]
          [] s = "TN" -> [capacity |-> 9, workdays |-> {1, 2, 3, 4, 5, 6}]
          [] s = "AL" -> [capacity |-> 2, workdays |-> {1, 2, 3, 4, 5}]
          [] s = "SC" -> [capacity |-> 1, workdays |-> {1, 2, 3, 4, 5}]]

OPERATING_HOURS ==
    <<"9:00 AM", "10:00 AM", "11:00 AM", "12:00 PM",
      "1:00 PM", "2:00 PM", "3:00 PM", "4:00 PM", "5:00 PM">>

HOLIDAY_BLOCKS == {"2024-12-25", "2024-01-01"}

\* The fields of DEFAULT_SCHEMA the model carries, in the order of the source.
DEFAULT_SCHEMA == <<"homeOwner", "state", "appointmentDate", "appointmentTime", "notes">>

\* field.required of DEFAULT_SCHEMA.
FieldRequired(f) == f \in {"homeOwner", "state", "appointmentDate", "appointmentTime"}

\* field.showWhen of DEFAULT_SCHEMA: none of the carried fields has one.
FieldShowWhen(f) == [has |-> FALSE, fieldId |-> Empty, value |-> Empty]

\* The options of the Property State select, and the unrecognised code.
StateOptions == {"GA", "TN", "AL", "SC"}
Regions == StateOptions \cup {Empty, "FL"}

Hours == {OPERATING_HOURS[i] : i \in 1..Len(OPERATING_HOURS)}

(***************************************************************************)
(* The calendar: days the model's calendar shows, as indices from          *)
(* 2024-01-01.  2024-01-01 is a Monday and a holiday; 2024-03-29 .. 04-01  *)
(* are Friday .. Monday; in Asia/Jerusalem the clocks go forward on Friday *)
(* 2024-03-29, a 23-hour local day (and back on 2024-10-27).               *)
(***************************************************************************)
CalendarDays == {0, 88, 89, 90, 91}

\* `${y}-${mm}-${dd}` of a local date (lines 187, 338-341).
FormatDate(d) ==
    CASE d = 0  -> "2024-01-01"
      [] d = 88 -> "2024-03-29"
      [] d = 89 -> "2024-03-30"
      [] d = 90 -> "2024-03-31"
      [] d = 91 -> "2024-04-01"

\* Date.prototype.getDay of the local date: 0 = Sunday .. 6 = Saturday.
GetDay(d) == (d + 1) % 7

TimeZones == {"UTC", "Asia/Jerusalem"}

\* getTime() of local midnight of day d (setHours(0,0,0,0)), in hours from
\* 2024-01-01T00:00Z.
LocalMidnight(zone, d) ==
    CASE zone = "UTC" -> 24 * d
      [] zone = "Asia/Jerusalem" ->
            24 * d - 2 - (IF d > 88 /\ d <= 300 THEN 1 ELSE 0)

HoursPerDay == 24

\* Math.ceil(a / b) for b > 0 (\div rounds down).
Ceil(a, b) == -((-a) \div b)

(***************************************************************************)
(* Records.                                                                *)
(***************************************************************************)
Clients == {1, 2}

\* The pages whose AuthProvider is modelled: the agents' AppointmentMaker
\* pages and the ScheduleGrid page, each in a browser of its own.
GridPage == 0

Pages == Clients \cup {GridPage}

\* role of fetchProfile, ScheduleGrid.tsx line 765: the profile's role, or
\* 'Sales Agent' when the row has none.
Roles == {"Admin", "Manager", "Sales Agent"}

\* Every profile was loaded before the page was rendered: agents on the
\* AppointmentMaker pages, an admin on the ScheduleGrid page.
ProfilesLoaded == [p \in Pages |-> IF p = GridPage THEN "Admin" ELSE "Sales Agent"]

\* The agents' profiles were loaded; the ScheduleGrid page has no profile.
AgentsLoaded == [p \in Pages |-> IF p = GridPage THEN Empty ELSE "Sales Agent"]

\* No logout and no updateUser of the AuthProvider is under way.
NoAuthCalls == [p \in Pages |-> [logout |-> 0, updateUser |-> 0]]

\* Every browser is signed in and shows its page, the search boxes are empty
\* and no call of the AuthProvider is in flight.
PagesShown ==
    /\ session = [p \in Pages |-> TRUE]
    /\ mounted = [p \in Pages |-> TRUE]
    /\ searchQuery = [c \in Clients |-> <<>>]
    /\ profileFetches = [p \in Pages |-> 0]
    /\ authCalls = NoAuthCalls

\* The fields typed as free text (type text and textarea).  Their value is
\* the sequence of the code points of the text, so that the emoticon filter
\* of generateClipboardText can be applied to it; the value of a select or
\* date field is one of its options, a string.  NoValue(f) is the value of a
\* field that was not filled in (undefined or the empty text).
TextFields == {"homeOwner", "notes"}

NoValue(f) == IF f \in TextFields THEN <<>> ELSE Empty

\* "John Doe", "Bob " followed by U+1F600 (grinning face), and
\* "gate code 4711" followed by U+1F680 (rocket, outside the emoticon block).
JohnDoe == <<74, 111, 104, 110, 32, 68, 111, 101>>

BobGrinning == <<66, 111, 98, 32, 128512>>

GateCodeRocket == <<103, 97, 116, 101, 32, 99, 111, 100, 101, 32, 52, 55, 49, 49, 128640>>

EmptyForm ==
    [homeOwner |-> <<>>, state |-> Empty, appointmentDate |-> Empty,
     appointmentTime |-> Empty, notes |-> <<>>]

\* An AppointmentRecord (types.ts 37-44).
\* The edit modal closed and no record taken for editing; editingRecord is
\* <<>> for null and <<record>> otherwise.
NoEdit == [isEditModalOpen |-> FALSE, editingRecord |-> <<>>]

\* new Date(created_at).getTime() of the row with identifier id, lines 60 and
\* 261: the store stamps a row with its clock when it inserts it, and the
\* clock reads id seconds at the insert that assigns id.
CreatedAt(id) == 1000 * id

Record(id, data, summary) ==
    [id |-> id, createdAt |-> CreatedAt(id), formData |-> data, clipboardSummary |-> summary]

\* A BlockRule (types.ts 48-54); reason is informational and not modelled.
Rule(id, date, time, state) == [id |-> id, date |-> date, time |-> time, state |-> state]

Range(s) == {s[i] : i \in 1..Len(s)}

(***************************************************************************)
(* The availability engine: AppointmentMaker.tsx 110-207.                  *)
(***************************************************************************)
isFieldVisible(field, currentData) ==
    IF ~FieldShowWhen(field).has THEN TRUE
    ELSE currentData[FieldShowWhen(field).fieldId] = FieldShowWhen(field).value

\* appointments.filter(a => date, time and state all equal), lines 144-148.
Bookings(c, dateStr, time, state) ==
    SelectSeq(appointments[c],
              LAMBDA a : /\ a.formData.appointmentDate = dateStr
                         /\ a.formData.appointmentTime = time
                         /\ a.formData.state = state)

\* blockedRules.some(same date, same time, state absent or equal), 153-157.
SlotRuleMatches(c, dateStr, time, state) ==
    \E r \in blockedRules[c] :
        /\ r.date = dateStr
        /\ r.time = time
        /\ (r.state = Empty \/ r.state = state)

\* isSlotUnavailable with the capacity test written > instead of >=.
isSlotUnavailable_OffByOne(c, dateStr, time, state) ==
    IF state = Empty \/ state \notin DOMAIN STATE_CONFIG THEN TRUE
    ELSE IF Len(Bookings(c, dateStr, time, state)) > STATE_CONFIG[state].capacity THEN TRUE
    ELSE IF SlotRuleMatches(c, dateStr, time, state) THEN TRUE
    ELSE FALSE

\* isSlotUnavailable without the capacity check of lines 144-150.
isSlotUnavailable_IgnoresCapacity(c, dateStr, time, state) ==
    IF state = Empty \/ state \notin DOMAIN STATE_CONFIG THEN TRUE
    ELSE IF SlotRuleMatches(c, dateStr, time, state) THEN TRUE
    ELSE FALSE

isSlotUnavailable(c, dateStr, time, state) ==
    IF state = Empty \/ state \notin DOMAIN STATE_CONFIG THEN TRUE
    ELSE IF Len(Bookings(c, dateStr, time, state)) >= STATE_CONFIG[state].capacity THEN TRUE
    ELSE IF SlotRuleMatches(c, dateStr, time, state) THEN TRUE
    ELSE FALSE

\* diffDays of lines 174-180: both dates at local midnight, their getTime()
\* difference divided by one day, rounded up.
DiffDays(date) ==
    Ceil(LocalMidnight(tz, date) - LocalMidnight(tz, today), HoursPerDay)

\* DayRuleMatches that reads only the rules scoped to the region itself.
DayRuleMatches_ScopedOnly(c, dateStr, state) ==
    \E r \in blockedRules[c] :
        /\ r.date = dateStr
        /\ r.time = Empty
        /\ r.state = state

\* blockedRules.some(same date, no time, state absent or equal), 195-199.
DayRuleMatches(c, dateStr, state) ==
    \E r \in blockedRules[c] :
        /\ r.date = dateStr
        /\ r.time = Empty
        /\ (r.state = Empty \/ r.state = state)

\* DateBlockedFor answering "not blocked" when no region is recognised.
DateBlockedFor_FailOpen(c, date, state) ==
    LET dateStr == FormatDate(date)
    IN  IF state = Empty THEN FALSE
        ELSE IF state \notin DOMAIN STATE_CONFIG THEN FALSE
        ELSE IF DiffDays(date) < 0 THEN TRUE
        ELSE IF GetDay(date) \notin STATE_CONFIG[state].workdays THEN TRUE
        ELSE IF dateStr \in HOLIDAY_BLOCKS THEN TRUE
        ELSE IF DayRuleMatches(c, dateStr, state) THEN TRUE
        ELSE IF \A i \in 1..Len(OPERATING_HOURS) :
                    isSlotUnavailable(c, dateStr, OPERATING_HOURS[i], state) THEN TRUE
        ELSE FALSE

\* DateBlockedFor without the workday check of lines 184-185.
DateBlockedFor_NoWorkdays(c, date, state) ==
    LET dateStr == FormatDate(date)
    IN  IF state = Empty THEN TRUE
        ELSE IF state \notin DOMAIN STATE_CONFIG THEN TRUE
        ELSE IF DiffDays(date) < 0 THEN TRUE
        ELSE IF dateStr \in HOLIDAY_BLOCKS THEN TRUE
        ELSE IF DayRuleMatches(c, dateStr, state) THEN TRUE
        ELSE IF \A i \in 1..Len(OPERATING_HOURS) :
                    isSlotUnavailable(c, dateStr, OPERATING_HOURS[i], state) THEN TRUE
        ELSE FALSE

\* DateBlockedFor without the full-day check of lines 202-204.
DateBlockedFor_NoFullDay(c, date, state) ==
    LET dateStr == FormatDate(date)
    IN  IF state = Empty THEN TRUE
        ELSE IF state \notin DOMAIN STATE_CONFIG THEN TRUE
        ELSE IF DiffDays(date) < 0 THEN TRUE
        ELSE IF GetDay(date) \notin STATE_CONFIG[state].workdays THEN TRUE
        ELSE IF dateStr \in HOLIDAY_BLOCKS THEN TRUE
        ELSE IF DayRuleMatches(c, dateStr, state) THEN TRUE
        ELSE FALSE

\* The body of isDateBlocked with the selected state as a parameter.
DateBlockedFor(c, date, state) ==
    LET dateStr == FormatDate(date)
    IN  IF state = Empty THEN TRUE
        ELSE IF state \notin DOMAIN STATE_CONFIG THEN TRUE
        ELSE IF DiffDays(date) < 0 THEN TRUE
        ELSE IF GetDay(date) \notin STATE_CONFIG[state].workdays THEN TRUE
        ELSE IF dateStr \in HOLIDAY_BLOCKS THEN TRUE
        ELSE IF DayRuleMatches(c, dateStr, state) THEN TRUE
        ELSE IF \A i \in 1..Len(OPERATING_HOURS) :
                    isSlotUnavailable(c, dateStr, OPERATING_HOURS[i], state) THEN TRUE
        ELSE FALSE

\* const state = formData['state'], line 165.
isDateBlocked(c, date) == DateBlockedFor(c, date, formData[c].state)

\* remainingCapacity counting the bookings of the whole date.
remainingCapacity_IgnoresTime(c, dateStr, time, state) ==
    STATE_CONFIG[state].capacity -
        Len(SelectSeq(appointments[c],
                      LAMBDA a : a.formData.appointmentDate = dateStr /\ a.formData.state = state))

\* remaining of renderInput, lines 453-459.
remainingCapacity(c, dateStr, time, state) ==
    STATE_CONFIG[state].capacity - Len(Bookings(c, dateStr, time, state))

(***************************************************************************)
(* The form: the onChange handlers of renderInput, selectDate and the      *)
(* Clear Form button.  A control exists only for a field that is in the    *)
(* schema and visible (lines 614-625).                                     *)
(***************************************************************************)
Rendered(c, f) == mounted[c] /\ f \in Range(schema[c]) /\ isFieldVisible(f, formData[c])

\* setErrors({ ...errors, [id]: false }) when the new value is not empty.
Unflag(c, f, v) == IF v # NoValue(f) THEN errors[c] \ {f} ELSE errors[c]

\* text / textarea inputs: lines 516-528 and 558-570.
onChangeInput(c, f, v) ==
    /\ f \in {"homeOwner", "notes"}
    /\ Rendered(c, f)
    /\ formData' = [formData EXCEPT ![c][f] = v]
    /\ errors' = [errors EXCEPT ![c] = Unflag(c, f, v)]
    /\ UNCHANGED <<appointments, blockedRules, schema, toast, ops,
                   srvAppointments, srvRules, nextId, today, tz, user, session, mounted, searchQuery, profileFetches, authCalls, edit,
                   grid, gridOps, nextRuleId>>

\* selectDate without the appointmentTime: '' of line 343.
selectDate_KeepsTime(c, d) ==
    /\ Rendered(c, "appointmentDate")
    /\ formData[c].state # Empty
    /\ ~isDateBlocked(c, d)
    /\ formData' = [formData EXCEPT ![c].appointmentDate = FormatDate(d)]
    /\ errors' = [errors EXCEPT ![c] = @ \ {"appointmentDate"}]
    /\ UNCHANGED <<appointments, blockedRules, schema, toast, ops,
                   srvAppointments, srvRules, nextId, today, tz, user, session, mounted,
                   searchQuery, profileFetches, authCalls, edit, grid, gridOps, nextRuleId>>

\* the Property State select: lines 483-494; a new state clears date and time.
onChangeState(c, v) ==
    /\ Rendered(c, "state")
    /\ formData' = [formData EXCEPT ![c].state = v,
                                    ![c].appointmentDate = Empty,
                                    ![c].appointmentTime = Empty]
    /\ errors' = [errors EXCEPT ![c] = Unflag(c, "state", v)]
    /\ UNCHANGED <<appointments, blockedRules, schema, toast, ops,
                   srvAppointments, srvRules, nextId, today, tz, user, session, mounted, searchQuery, profileFetches, authCalls, edit,
                   grid, gridOps, nextRuleId>>

\* a click on an enabled day of the calendar: lines 336-346 and 388-406.
selectDate(c, d) ==
    /\ Rendered(c, "appointmentDate")
    /\ formData[c].state # Empty              \* else "State Required", 354-364
    /\ ~isDateBlocked(c, d)                   \* disabled={isBlocked}
    /\ formData' = [formData EXCEPT ![c].appointmentDate = FormatDate(d),
                                    ![c].appointmentTime = Empty]
    /\ errors' = [errors EXCEPT ![c] = @ \ {"appointmentDate"}]
    /\ UNCHANGED <<appointments, blockedRules, schema, toast, ops,
                   srvAppointments, srvRules, nextId, today, tz, user, session, mounted, searchQuery, profileFetches, authCalls, edit,
                   grid, gridOps, nextRuleId>>

\* the Appointment Time select: lines 435-476.  It is disabled without a
\* date, lists the hours only with a date and a state, and disables the
\* options isSlotUnavailable reports.
onChangeTime(c, t) ==
    /\ Rendered(c, "appointmentTime")
    /\ formData[c].appointmentDate # Empty
    /\ \/ t = Empty
       \/ /\ formData[c].state # Empty
          /\ t \in Hours
          /\ ~isSlotUnavailable(c, formData[c].appointmentDate, t, formData[c].state)
    /\ formData' = [formData EXCEPT ![c].appointmentTime = t]
    /\ errors' = [errors EXCEPT ![c] = Unflag(c, "appointmentTime", t)]
    /\ UNCHANGED <<appointments, blockedRules, schema, toast, ops,
                   srvAppointments, srvRules, nextId, today, tz, user, session, mounted, searchQuery, profileFetches, authCalls, edit,
                   grid, gridOps, nextRuleId>>

\* the Clear Form button: line 597.
clearForm(c) ==
    /\ mounted[c]
    /\ formData' = [formData EXCEPT ![c] = EmptyForm]
    /\ errors' = [errors EXCEPT ![c] = {}]
    /\ UNCHANGED <<appointments, blockedRules, schema, toast, ops,
                   srvAppointments, srvRules, nextId, today, tz, user, session, mounted, searchQuery, profileFetches, authCalls, edit,
                   grid, gridOps, nextRuleId>>

(***************************************************************************)
(* The form builder: the buttons of the settings modal, lines 742-797.     *)
(* Positions are 1-based here and 0-based in the code.                     *)
(***************************************************************************)
Swap(sq, i, j) == [sq EXCEPT ![i] = sq[j], ![j] = sq[i]]

\* arrow_upward: lines 752-759.
moveFieldUp(c, idx) ==
    /\ mounted[c]
    /\ idx \in 2..Len(schema[c])
    /\ schema' = [schema EXCEPT ![c] = Swap(@, idx - 1, idx)]
    /\ UNCHANGED <<appointments, blockedRules, formData, errors, toast, ops,
                   srvAppointments, srvRules, nextId, today, tz, user, session, mounted, searchQuery, profileFetches, authCalls, edit,
                   grid, gridOps, nextRuleId>>

\* arrow_downward: lines 765-772.
moveFieldDown(c, idx) ==
    /\ mounted[c]
    /\ idx \in 1..(Len(schema[c]) - 1)
    /\ schema' = [schema EXCEPT ![c] = Swap(@, idx + 1, idx)]
    /\ UNCHANGED <<appointments, blockedRules, formData, errors, toast, ops,
                   srvAppointments, srvRules, nextId, today, tz, user, session, mounted, searchQuery, profileFetches, authCalls, edit,
                   grid, gridOps, nextRuleId>>

\* delete: lines 778-780.
deleteField(c, f) ==
    /\ mounted[c]
    /\ f \in Range(schema[c])
    /\ schema' = [schema EXCEPT ![c] = SelectSeq(@, LAMBDA g : g # f)]
    /\ UNCHANGED <<appointments, blockedRules, formData, errors, toast, ops,
                   srvAppointments, srvRules, nextId, today, tz, user, session, mounted, searchQuery, profileFetches, authCalls, edit,
                   grid, gridOps, nextRuleId>>

\* Reset to Default Schema: lines 790-793.
resetSchema(c) ==
    /\ mounted[c]
    /\ schema' = [schema EXCEPT ![c] = DEFAULT_SCHEMA]
    /\ toast' = [toast EXCEPT ![c] = "Schema reset to defaults"]
    /\ UNCHANGED <<appointments, blockedRules, formData, errors, ops,
                   srvAppointments, srvRules, nextId, today, tz, user, session, mounted, searchQuery, profileFetches, authCalls, edit,
                   grid, gridOps, nextRuleId>>

\* setTimeout(() => setToast(null), 3000): lines 94-97.
toastTimeout(c) ==
    /\ toast[c] # Empty
    /\ toast' = [toast EXCEPT ![c] = Empty]
    /\ UNCHANGED <<appointments, blockedRules, formData, errors, schema, ops,
                   srvAppointments, srvRules, nextId, today, tz, user, session, mounted, searchQuery, profileFetches, authCalls, edit,
                   grid, gridOps, nextRuleId>>

(***************************************************************************)
(* Handler activations suspended at an await.  An activation keeps the     *)
(* values its closure captured when the handler was called: the            *)
(* appointments list of that render (closure), the record found for a      *)
(* delete (deleted, a list of none or one), and carries the store's answer *)
(* once the store has served its request (ok, id, rows, rules).  orphan    *)
(* tells that the page of the activation was left: the activation goes on  *)
(* and its requests are served, but its state setters belong to a          *)
(* component that is no longer mounted and change nothing.                 *)
(*   save:   insert_sent -> insert_done -> (finished, or copy)             *)
(*   copy:   clipboard_sent -> (finished)                                  *)
(*   delete: delete_sent -> delete_done -> delay -> appts_sent -> ...      *)
(*   fetch:  appts_sent -> appts_done -> rules_sent -> rules_done ->       *)
(*           (finished)                                                    *)
(***************************************************************************)
MaxOps == 2

NewOp(seq, kind, phase) ==
    [seq |-> seq, kind |-> kind, phase |-> phase, id |-> 0, formData |-> EmptyForm,
     summary |-> <<>>, closure |-> <<>>, deleted |-> <<>>, ok |-> TRUE,
     rows |-> <<>>, rules |-> {}, orphan |-> FALSE]

FreeSeq(c) == CHOOSE n \in 1..(MaxOps + 1) : \A o \in ops[c] : o.seq # n

Replace(c, o, o2) == [ops EXCEPT ![c] = (@ \ {o}) \cup {o2}]

Finish(c, o) == [ops EXCEPT ![c] = @ \ {o}]

\* The inserts sent and not yet served by the store.
InsertsSent(S) == {o \in S : o.phase = "insert_sent"}

\* The clipboard writes of S that have not ended.
CopiesSent(S) == {o \in S : o.phase = "clipboard_sent"}


\* text.replace(/[\u{1F600}-\u{1F64F}]/gu, ""), line 123: the code points of
\* the emoticon block are dropped.
FirstEmoticon == 128512
LastEmoticon == 128591

StripEmoticons(text) ==
    SelectSeq(text, LAMBDA ch : ~(FirstEmoticon <= ch /\ ch <= LastEmoticon))

\* generateClipboardText, lines 115-125: for each field of the schema that
\* is visible and has a value, prefix + value + suffix, here the pair of the
\* field and the value; the fixed last line is not modelled.  The filter of
\* line 123 runs over the whole text; prefixes, suffixes, options and dates
\* hold no emoticon, so it acts on the free texts.
generateClipboardText(data, currentSchema) ==
    LET shown == SelectSeq(currentSchema,
                           LAMBDA f : isFieldVisible(f, data) /\ data[f] # NoValue(f))
    IN  [i \in 1..Len(shown) |->
            <<shown[i], IF shown[i] \in TextFields THEN StripEmoticons(data[shown[i]])
                        ELSE data[shown[i]]>>]

\* newErrors of lines 210-220.
MissingRequired(c) ==
    {f \in Range(schema[c]) :
        isFieldVisible(f, formData[c]) /\ FieldRequired(f) /\ formData[c][f] = NoValue(f)}

\* formData.state && formData.appointmentDate && formData.appointmentTime.
SlotChosen(c) ==
    /\ formData[c].state # Empty
    /\ formData[c].appointmentDate # Empty
    /\ formData[c].appointmentTime # Empty

\* handleSaveAndCopy without the check of lines 223-228.
handleSaveAndCopy_NoRecheck(c) ==
    /\ mounted[c]
    /\ Cardinality(ops[c]) < MaxOps
    /\ IF MissingRequired(c) # {}
       THEN /\ errors' = [errors EXCEPT ![c] = MissingRequired(c)]
            /\ toast' = [toast EXCEPT ![c] = "Missing required fields"]
            /\ UNCHANGED ops
       ELSE /\ errors' = [errors EXCEPT ![c] = MissingRequired(c)]
            /\ ops' = [ops EXCEPT ![c] = @ \cup
                        {[NewOp(FreeSeq(c), "save", "insert_sent") EXCEPT
                            !.formData = formData[c],
                            !.summary = generateClipboardText(formData[c], schema[c]),
                            !.closure = appointments[c]]}]
            /\ UNCHANGED toast
    /\ UNCHANGED <<appointments, blockedRules, formData, schema,
                   srvAppointments, srvRules, nextId, today, tz, user, session, mounted, searchQuery, profileFetches, authCalls, edit,
                   grid, gridOps, nextRuleId>>

\* handleSaveAndCopy up to its await: lines 209-254.
handleSaveAndCopy(c) ==
    /\ mounted[c]
    /\ Cardinality(ops[c]) < MaxOps
    /\ IF SlotChosen(c) /\ isSlotUnavailable(c, formData[c].appointmentDate,
                                             formData[c].appointmentTime, formData[c].state)
       THEN /\ toast' = [toast EXCEPT ![c] = "This slot is unavailable"]
            /\ UNCHANGED <<errors, ops>>
       ELSE IF MissingRequired(c) # {}
       THEN /\ errors' = [errors EXCEPT ![c] = MissingRequired(c)]
            /\ toast' = [toast EXCEPT ![c] = "Missing required fields"]
            /\ UNCHANGED ops
       ELSE IF user[c] = Empty
       THEN /\ errors' = [errors EXCEPT ![c] = MissingRequired(c)]
            /\ toast' = [toast EXCEPT ![c] = "Please log in"]
            /\ UNCHANGED ops
       ELSE /\ errors' = [errors EXCEPT ![c] = MissingRequired(c)]
            /\ ops' = [ops EXCEPT ![c] = @ \cup
                        {[NewOp(FreeSeq(c), "save", "insert_sent") EXCEPT
                            !.formData = formData[c],
                            !.summary = generateClipboardText(formData[c], schema[c]),
                            !.closure = appointments[c]]}]
            /\ UNCHANGED toast
    /\ UNCHANGED <<appointments, blockedRules, formData, schema,
                   srvAppointments, srvRules, nextId, today, tz, user, session, mounted, searchQuery, profileFetches, authCalls, edit,
                   grid, gridOps, nextRuleId>>

\* handleSaveAndCopy after its await: lines 256-274.  The new list is built
\* from the appointments the closure captured.  copyToClipboard(summary),
\* line 266, is called and not awaited: its activation stays in flight.
saveReturns(c, o) ==
    /\ o \in ops[c] /\ o.kind = "save" /\ o.phase = "insert_done"
    /\ IF o.orphan
       THEN UNCHANGED <<appointments, formData, errors, toast>>
       ELSE IF o.ok
       THEN /\ appointments' = [appointments EXCEPT ![c] =
                    <<Record(o.id, o.formData, o.summary)>> \o o.closure]
            /\ formData' = [formData EXCEPT ![c] = EmptyForm]
            /\ errors' = [errors EXCEPT ![c] = {}]
            /\ toast' = [toast EXCEPT ![c] = "Saved"]
       ELSE /\ toast' = [toast EXCEPT ![c] = "Failed to save"]
            /\ UNCHANGED <<appointments, formData, errors>>
    /\ ops' = IF o.ok
              THEN Replace(c, o, [NewOp(o.seq, "copy", "clipboard_sent") EXCEPT
                                    !.summary = o.summary, !.orphan = o.orphan])
              ELSE Finish(c, o)
    /\ UNCHANGED <<blockedRules, schema, srvAppointments, srvRules, nextId, today, tz, user, session, mounted, searchQuery, profileFetches, authCalls, edit,
                   grid, gridOps, nextRuleId>>

\* toLowerCase on the code points of a text: the letters A to Z.
ToLower(text) ==
    [i \in DOMAIN text |-> IF 65 <= text[i] /\ text[i] <= 90 THEN text[i] + 32 ELSE text[i]]

\* text.includes(search).
Includes(text, search) ==
    \E k \in 0..(Len(text) - Len(search)) : SubSeq(text, k + 1, k + Len(search)) = search

\* The test of filteredAppointments, lines 575-583, on one record: homeOwner
\* has a value and contains the search text, letter case apart.  phoneNumber
\* and address are no fields of the modelled form, so their disjuncts are
\* false.
isListed(c, app) ==
    LET search == ToLower(searchQuery[c])
        data   == app.formData
    IN  data.homeOwner # <<>> /\ Includes(ToLower(data.homeOwner), search)

\* filteredAppointments: the records that have a card, with its delete, Edit
\* Text and Copy Again buttons (lines 664-706).
filteredAppointments(c) == SelectSeq(appointments[c], LAMBDA app : isListed(c, app))

\* The search box, lines 647-648.
setSearchQuery(c, text) ==
    /\ mounted[c]
    /\ searchQuery' = [searchQuery EXCEPT ![c] = text]
    /\ UNCHANGED <<appointments, blockedRules, formData, errors, schema, toast, ops,
                   srvAppointments, srvRules, nextId, today, tz, user, session, mounted,
                   profileFetches, authCalls, edit, grid, gridOps, nextRuleId>>

\* copyToClipboard, lines 127-134, up to its await, on the Copy Again button
\* of the card of the i-th record of the list, line 702.
copyToClipboard(c, i) ==
    /\ mounted[c]
    /\ i \in DOMAIN appointments[c]
    /\ isListed(c, appointments[c][i])
    /\ Cardinality(ops[c]) < MaxOps
    /\ ops' = [ops EXCEPT ![c] = @ \cup
                {[NewOp(FreeSeq(c), "copy", "clipboard_sent") EXCEPT
                    !.summary = appointments[c][i].clipboardSummary]}]
    /\ UNCHANGED <<appointments, blockedRules, formData, errors, schema, toast,
                   srvAppointments, srvRules, nextId, today, tz, user, session, mounted, searchQuery, profileFetches, authCalls, edit,
                   grid, gridOps, nextRuleId>>

\* copyToClipboard after its await, lines 130 and 132: the browser has
\* resolved (ok) or rejected navigator.clipboard.writeText.
copyReturns(c, o, ok) ==
    /\ o \in ops[c] /\ o.kind = "copy" /\ o.phase = "clipboard_sent"
    /\ toast' = IF o.orphan THEN toast
                ELSE [toast EXCEPT ![c] = IF ok THEN "Copied to clipboard!"
                                          ELSE "Failed to copy"]
    /\ ops' = Finish(c, o)
    /\ UNCHANGED <<appointments, blockedRules, formData, errors, schema,
                   srvAppointments, srvRules, nextId, today, tz, user, session, mounted, searchQuery, profileFetches, authCalls, edit,
                   grid, gridOps, nextRuleId>>

\* handleDelete up to its await: lines 277-288.  The delete button belongs
\* to the card of a record of the local list.
handleDelete(c, id) ==
    /\ mounted[c]
    /\ Cardinality(ops[c]) < MaxOps
    /\ \E i \in DOMAIN appointments[c] :
            appointments[c][i].id = id /\ isListed(c, appointments[c][i])
    /\ LET first == CHOOSE i \in DOMAIN appointments[c] :
                        /\ appointments[c][i].id = id
                        /\ \A j \in 1..(i - 1) : appointments[c][j].id # id
       IN  ops' = [ops EXCEPT ![c] = @ \cup
                    {[NewOp(FreeSeq(c), "delete", "delete_sent") EXCEPT
                        !.id = id, !.deleted = <<appointments[c][first]>>,
                        !.closure = appointments[c]]}]
    /\ appointments' = [appointments EXCEPT ![c] = SelectSeq(@, LAMBDA a : a.id # id)]
    /\ UNCHANGED <<blockedRules, formData, errors, schema, toast,
                   srvAppointments, srvRules, nextId, today, tz, user, session, mounted, searchQuery, profileFetches, authCalls, edit,
                   grid, gridOps, nextRuleId>>

\* deleteReturns going on to the delay and the re-fetch after an error too.
deleteReturns_AlwaysRefetch(c, o) ==
    /\ o \in ops[c] /\ o.kind = "delete" /\ o.phase = "delete_done"
    /\ IF o.ok \/ o.orphan
       THEN UNCHANGED <<appointments, toast>>
       ELSE /\ appointments' = [appointments EXCEPT ![c] = @ \o o.deleted]
            /\ toast' = [toast EXCEPT ![c] = "Failed to delete"]
    /\ ops' = Replace(c, o, [o EXCEPT !.phase = "delay"])
    /\ UNCHANGED <<blockedRules, formData, errors, schema,
                   srvAppointments, srvRules, nextId, today, tz, user, session, mounted, searchQuery, profileFetches, authCalls, edit,
                   grid, gridOps, nextRuleId>>

\* handleDelete after the delete's await: lines 290-306.  On an error the
\* record is put back at the end of the current list; otherwise the delay
\* of 300 ms starts.
deleteReturns(c, o) ==
    /\ o \in ops[c] /\ o.kind = "delete" /\ o.phase = "delete_done"
    /\ ops' = IF o.ok THEN Replace(c, o, [o EXCEPT !.phase = "delay"]) ELSE Finish(c, o)
    /\ IF o.ok \/ o.orphan
       THEN UNCHANGED <<appointments, toast>>
       ELSE /\ appointments' = [appointments EXCEPT ![c] = @ \o o.deleted]
            /\ toast' = [toast EXCEPT ![c] = "Failed to delete"]
    /\ UNCHANGED <<blockedRules, formData, errors, schema,
                   srvAppointments, srvRules, nextId, today, tz, user, session, mounted, searchQuery, profileFetches, authCalls, edit,
                   grid, gridOps, nextRuleId>>

\* the delay has passed and fetchAppointments sends its first select:
\* lines 296-297 and 48-55.
delayElapsed(c, o) ==
    /\ o \in ops[c] /\ o.kind = "delete" /\ o.phase = "delay"
    /\ ops' = Replace(c, o, [o EXCEPT !.phase = "appts_sent"])
    /\ UNCHANGED <<appointments, blockedRules, formData, errors, schema, toast,
                   srvAppointments, srvRules, nextId, today, tz, user, session, mounted, searchQuery, profileFetches, authCalls, edit,
                   grid, gridOps, nextRuleId>>

\* fetchAppointments after its first await: lines 57-69.
fetchAppointmentsReturns(c, o) ==
    /\ o \in ops[c] /\ o.phase = "appts_done"
    /\ IF o.ok /\ ~o.orphan
       THEN appointments' = [appointments EXCEPT ![c] = o.rows]
       ELSE UNCHANGED appointments
    /\ ops' = Replace(c, o, [o EXCEPT !.phase = "rules_sent", !.ok = TRUE, !.rows = <<>>])
    /\ UNCHANGED <<blockedRules, formData, errors, schema, toast,
                   srvAppointments, srvRules, nextId, today, tz, user, session, mounted, searchQuery, profileFetches, authCalls, edit,
                   grid, gridOps, nextRuleId>>

\* fetchAppointments after its second await, lines 71-73, and then the end
\* of handleDelete, line 298.
fetchRulesReturns(c, o) ==
    /\ o \in ops[c] /\ o.phase = "rules_done"
    /\ IF o.ok /\ ~o.orphan
       THEN blockedRules' = [blockedRules EXCEPT ![c] = o.rules]
       ELSE UNCHANGED blockedRules
    /\ IF o.kind = "delete" /\ ~o.orphan
       THEN toast' = [toast EXCEPT ![c] = "Record deleted"]
       ELSE UNCHANGED toast
    /\ ops' = Finish(c, o)
    /\ UNCHANGED <<appointments, formData, errors, schema,
                   srvAppointments, srvRules, nextId, today, tz, user, session, mounted, searchQuery, profileFetches, authCalls, edit,
                   grid, gridOps, nextRuleId>>

\* The Edit Text button of the card of the i-th record of the list, line 674.
openEditModal(c, i) ==
    /\ mounted[c]
    /\ i \in DOMAIN appointments[c]
    /\ isListed(c, appointments[c][i])
    /\ edit' = [edit EXCEPT ![c] = [isEditModalOpen |-> TRUE,
                                    editingRecord |-> <<appointments[c][i]>>]]
    /\ UNCHANGED <<appointments, blockedRules, formData, errors, schema, toast, ops,
                   srvAppointments, srvRules, nextId, today, tz, user, session, mounted, searchQuery, profileFetches, authCalls,
                   grid, gridOps, nextRuleId>>

\* The textarea of the edit modal, lines 817-820: v is the text typed.
onChangeEditText(c, v) ==
    /\ mounted[c]
    /\ edit[c].isEditModalOpen /\ edit[c].editingRecord # <<>>
    /\ edit' = [edit EXCEPT ![c].editingRecord[1].clipboardSummary = v]
    /\ UNCHANGED <<appointments, blockedRules, formData, errors, schema, toast, ops,
                   srvAppointments, srvRules, nextId, today, tz, user, session, mounted, searchQuery, profileFetches, authCalls,
                   grid, gridOps, nextRuleId>>

\* The close and Cancel buttons of the edit modal, lines 812 and 824.
closeEditModal(c) ==
    /\ mounted[c]
    /\ edit[c].isEditModalOpen /\ edit[c].editingRecord # <<>>
    /\ edit' = [edit EXCEPT ![c].isEditModalOpen = FALSE]
    /\ UNCHANGED <<appointments, blockedRules, formData, errors, schema, toast, ops,
                   srvAppointments, srvRules, nextId, today, tz, user, session, mounted, searchQuery, profileFetches, authCalls,
                   grid, gridOps, nextRuleId>>

handleUpdateRecord_ReplacesAll(c) ==
    /\ mounted[c]
    /\ edit[c].isEditModalOpen /\ edit[c].editingRecord # <<>>
    /\ appointments' = [appointments EXCEPT ![c] =
                            [i \in DOMAIN @ |-> edit[c].editingRecord[1]]]
    /\ edit' = [edit EXCEPT ![c].isEditModalOpen = FALSE]
    /\ toast' = [toast EXCEPT ![c] = "Record updated"]
    /\ UNCHANGED <<blockedRules, formData, errors, schema, ops,
                   srvAppointments, srvRules, nextId, today, tz, user, session, mounted, searchQuery, profileFetches, authCalls,
                   grid, gridOps, nextRuleId>>

\* handleUpdateRecord, lines 309-314, on the Save button of the edit modal
\* (rendered when isEditModalOpen && editingRecord, line 804).
handleUpdateRecord(c) ==
    /\ mounted[c]
    /\ edit[c].isEditModalOpen /\ edit[c].editingRecord # <<>>
    /\ appointments' = [appointments EXCEPT ![c] =
                            [i \in DOMAIN @ |->
                                IF @[i].id = edit[c].editingRecord[1].id
                                THEN edit[c].editingRecord[1] ELSE @[i]]]
    /\ edit' = [edit EXCEPT ![c].isEditModalOpen = FALSE]
    /\ toast' = [toast EXCEPT ![c] = "Record updated"]
    /\ UNCHANGED <<blockedRules, formData, errors, schema, ops,
                   srvAppointments, srvRules, nextId, today, tz, user, session, mounted, searchQuery, profileFetches, authCalls,
                   grid, gridOps, nextRuleId>>

\* The state a page's component leaves behind when it is unmounted: the
\* useState values are gone (the variables hold the initial values of lines
\* 42-45 and 81-86, those of the next mount), and nothing aborts the
\* requests in flight: their activations go on as orphans.
LeaveAppointmentMaker(c) ==
    /\ appointments' = [appointments EXCEPT ![c] = <<>>]
    /\ blockedRules' = [blockedRules EXCEPT ![c] = {}]
    /\ formData' = [formData EXCEPT ![c] = EmptyForm]
    /\ errors' = [errors EXCEPT ![c] = {}]
    /\ schema' = [schema EXCEPT ![c] = DEFAULT_SCHEMA]
    /\ toast' = [toast EXCEPT ![c] = Empty]
    /\ edit' = [edit EXCEPT ![c] = NoEdit]
    /\ searchQuery' = [searchQuery EXCEPT ![c] = <<>>]

\* The page is loaded, or left and loaded again: the component starts from
\* its initial state and its effect calls fetchAppointments, lines 76-78,
\* which sends nothing without a user (line 49).  ProtectedRoute renders the
\* page only with a session.
mount(c) ==
    /\ session[c]
    /\ Cardinality(ops[c]) < MaxOps
    /\ LeaveAppointmentMaker(c)
    /\ ops' = [ops EXCEPT ![c] =
                {[o EXCEPT !.orphan = TRUE] : o \in @} \cup
                (IF user[c] # Empty THEN {NewOp(FreeSeq(c), "fetch", "appts_sent")} ELSE {})]
    /\ mounted' = [mounted EXCEPT ![c] = TRUE]
    /\ UNCHANGED <<srvAppointments, srvRules, nextId, today, tz, user, session,
                   profileFetches, authCalls, grid, gridOps, nextRuleId>>

(***************************************************************************)
(* The store (spec sections 5 and 6): each request is served atomically,   *)
(* at some moment between its sending and the delivery of its answer, and  *)
(* may fail.  There is no locking and no capacity constraint.  The store   *)
(* assigns identifiers in increasing order up to MaxId.                    *)
(***************************************************************************)
MaxId == 3

RECURSIVE NewestFirst(_)
\* .order('created_at', { ascending: false }): identifiers grow with time.
NewestFirst(S) ==
    IF S = {} THEN <<>>
    ELSE LET r == CHOOSE x \in S : \A y \in S : y.id <= x.id
         IN  <<r>> \o NewestFirst(S \ {r})

storeInsert(c, o, ok) ==
    /\ o \in ops[c] /\ o.phase = "insert_sent"
    /\ IF ok
       THEN /\ nextId <= MaxId
            /\ srvAppointments' = srvAppointments \cup {Record(nextId, o.formData, o.summary)}
            /\ nextId' = nextId + 1
            /\ ops' = Replace(c, o, [o EXCEPT !.phase = "insert_done", !.ok = TRUE, !.id = nextId])
       ELSE /\ ops' = Replace(c, o, [o EXCEPT !.phase = "insert_done", !.ok = FALSE])
            /\ UNCHANGED <<srvAppointments, nextId>>
    /\ UNCHANGED <<appointments, blockedRules, formData, errors, schema, toast,
                   srvRules, today, tz, user, session, mounted, searchQuery, profileFetches, authCalls, edit,
                   grid, gridOps, nextRuleId>>

storeDelete(c, o, ok) ==
    /\ o \in ops[c] /\ o.phase = "delete_sent"
    /\ IF ok
       THEN srvAppointments' = {r \in srvAppointments : r.id # o.id}
       ELSE UNCHANGED srvAppointments
    /\ ops' = Replace(c, o, [o EXCEPT !.phase = "delete_done", !.ok = ok])
    /\ UNCHANGED <<appointments, blockedRules, formData, errors, schema, toast,
                   srvRules, nextId, today, tz, user, session, mounted, searchQuery, profileFetches, authCalls, edit,
                   grid, gridOps, nextRuleId>>

storeSelectAppointments(c, o, ok) ==
    /\ o \in ops[c] /\ o.phase = "appts_sent"
    /\ ops' = Replace(c, o, [o EXCEPT !.phase = "appts_done", !.ok = ok,
                                       !.rows = IF ok THEN NewestFirst(srvAppointments) ELSE <<>>])
    /\ UNCHANGED <<appointments, blockedRules, formData, errors, schema, toast,
                   srvAppointments, srvRules, nextId, today, tz, user, session, mounted, searchQuery, profileFetches, authCalls, edit,
                   grid, gridOps, nextRuleId>>

storeSelectRules(c, o, ok) ==
    /\ o \in ops[c] /\ o.phase = "rules_sent"
    /\ ops' = Replace(c, o, [o EXCEPT !.phase = "rules_done", !.ok = ok,
                                       !.rules = IF ok THEN srvRules ELSE {}])
    /\ UNCHANGED <<appointments, blockedRules, formData, errors, schema, toast,
                   srvAppointments, srvRules, nextId, today, tz, user, session, mounted, searchQuery, profileFetches, authCalls, edit,
                   grid, gridOps, nextRuleId>>

(***************************************************************************)
(* The admin's ScheduleGrid page, src/pages/ScheduleGrid.tsx.  Its lists   *)
(* are arrays (sequences), as toggleBlockTime and saveBlockModal read them *)
(* with find and filter.  A date is a calendar day, as in the agent's      *)
(* page; the month shown in the modal is not modelled.                     *)
(***************************************************************************)
\* The first render of the page, lines 15-27, without a profile: the mount
\* effect sends nothing (line 29).
GridFirstRender ==
    [appointments |-> <<>>, blockedRules |-> <<>>, selectedDate |-> today,
     isBlockModalOpen |-> FALSE, tempBlockedRules |-> <<>>, blockStateFilter |-> "ALL"]

InitGridIdle ==
    /\ user[GridPage] = Empty
    /\ grid = GridFirstRender
    /\ gridOps = {}
    /\ nextRuleId = 1

\* const isAdmin = user?.role === 'Admin' || user?.role === 'Manager',
\* line 819.
isAdmin == user[GridPage] \in {"Admin", "Manager"}

formatDate(date) == FormatDate(date)

\* isDayBlocked(dStr, state, rules), lines 99-101; state is Empty for undefined.
isDayBlocked(dStr, state, rules) ==
    \E i \in DOMAIN rules :
        /\ rules[i].date = dStr
        /\ rules[i].time = Empty
        /\ (rules[i].state = Empty \/ (state # Empty /\ rules[i].state = state))

\* isGlobalDayBlocked(dStr, rules), lines 104-106.
isGlobalDayBlocked(dStr, rules) ==
    \E i \in DOMAIN rules :
        rules[i].date = dStr /\ rules[i].time = Empty /\ rules[i].state = Empty

\* Identifiers of crypto.randomUUID(): numbers the store never assigns.
MaxTempRules == 2

TempIds == 201..(200 + MaxTempRules)

RuleIds(rules) == {rules[i].id : i \in DOMAIN rules}

\* openBlockModal, lines 151-155.
openBlockModal ==
    /\ mounted[GridPage]
    /\ isAdmin
    /\ grid' = [grid EXCEPT !.tempBlockedRules = grid.blockedRules,
                            !.isBlockModalOpen = TRUE]
    /\ UNCHANGED <<appointments, blockedRules, formData, errors, schema, toast, ops,
                   srvAppointments, srvRules, nextId, today, tz, user, session, mounted, searchQuery, profileFetches, authCalls, edit, gridOps, nextRuleId>>

\* the close and Cancel buttons of the modal, lines 555 and 674.
closeBlockModal ==
    /\ mounted[GridPage]
    /\ grid.isBlockModalOpen
    /\ grid' = [grid EXCEPT !.isBlockModalOpen = FALSE]
    /\ UNCHANGED <<appointments, blockedRules, formData, errors, schema, toast, ops,
                   srvAppointments, srvRules, nextId, today, tz, user, session, mounted, searchQuery, profileFetches, authCalls, edit, gridOps, nextRuleId>>

\* the state filter buttons of the modal, lines 568 and 579.
setBlockStateFilter(f) ==
    /\ mounted[GridPage]
    /\ grid.isBlockModalOpen
    /\ f \in {"ALL"} \cup DOMAIN STATE_CONFIG
    /\ grid' = [grid EXCEPT !.blockStateFilter = f]
    /\ UNCHANGED <<appointments, blockedRules, formData, errors, schema, toast, ops,
                   srvAppointments, srvRules, nextId, today, tz, user, session, mounted, searchQuery, profileFetches, authCalls, edit, gridOps, nextRuleId>>

KeptByUnblock_AnyScope(rules, dStr, targetState) ==
    SelectSeq(rules, LAMBDA r : ~(r.date = dStr /\ r.time = Empty))

\* The rules the unblock branch keeps, lines 226-240.
KeptByUnblock(rules, dStr, targetState) ==
    SelectSeq(rules,
              LAMBDA r : IF ~(r.date = dStr /\ r.time = Empty) THEN TRUE
                         ELSE IF targetState = Empty THEN r.state # Empty
                         ELSE r.state # targetState)

NewCalendarRule_Unscoped(id, dStr, targetState) == Rule(id, dStr, Empty, Empty)

\* newRule of the block branch, lines 243-248: no time, the filter's state.
NewCalendarRule(id, dStr, targetState) == Rule(id, dStr, Empty, targetState)

\* The identifier of the next rule of the working copy.
FreshTempId ==
    CHOOSE x \in TempIds :
        /\ x \notin RuleIds(grid.tempBlockedRules)
        /\ \A y \in TempIds : y \notin RuleIds(grid.tempBlockedRules) => x <= y

\* The working copy that toggleDateBlockFromCalendar sets, lines 214-250.
ToggledRules(d) ==
    LET dStr == formatDate(d)
        targetState == IF grid.blockStateFilter = "ALL" THEN Empty
                       ELSE grid.blockStateFilter
        currentlyBlocked == isDayBlocked(dStr, targetState, grid.tempBlockedRules)
    IN  IF currentlyBlocked
        THEN KeptByUnblock(grid.tempBlockedRules, dStr, targetState)
        ELSE Append(grid.tempBlockedRules, NewCalendarRule(FreshTempId, dStr, targetState))

\* toggleDateBlockFromCalendar, lines 207-251, on the day button of date d.
toggleDateBlockFromCalendar(d) ==
    /\ mounted[GridPage]
    /\ grid.isBlockModalOpen
    /\ \/ isDayBlocked(formatDate(d), IF grid.blockStateFilter = "ALL" THEN Empty
                                         ELSE grid.blockStateFilter,
                       grid.tempBlockedRules)
       \/ \E id \in TempIds : id \notin RuleIds(grid.tempBlockedRules)
    /\ grid' = [grid EXCEPT !.tempBlockedRules = ToggledRules(d)]
    /\ UNCHANGED <<appointments, blockedRules, formData, errors, schema, toast, ops,
                   srvAppointments, srvRules, nextId, today, tz, user, session, mounted, searchQuery, profileFetches, authCalls, edit, gridOps, nextRuleId>>

\* An activation of a ScheduleGrid handler suspended at an await; added,
\* removed and temp are the values its closure computed or captured, and
\* deleteOk, insertOk and selectOk tell whether the awaited request came back
\* without error (with data).  slot holds the arguments (time, state) of an
\* activation of toggleBlockTime.  orphan tells that the page of the
\* activation was left: it goes on and its requests are served, but its
\* state setters change nothing.
MaxGridOps == 2

GridOp(seq, kind, phase, added, removed, temp) ==
    [seq |-> seq, kind |-> kind, phase |-> phase, added |-> added,
     removed |-> removed, temp |-> temp,
     deleteOk |-> TRUE, insertOk |-> TRUE, selectOk |-> TRUE, rows |-> <<>>,
     slot |-> <<>>, orphan |-> FALSE]

FreeGridSeq == CHOOSE n \in 1..MaxGridOps : \A o \in gridOps : o.seq # n

GridReplace(o, o2) == (gridOps \ {o}) \cup {o2}

\* saveBlockModal, lines 157-193, from the click on Save Changes up to its
\* first await (or to its end when nothing was added or removed).
saveBlockModal ==
    /\ mounted[GridPage]
    /\ grid.isBlockModalOpen
    /\ Cardinality(gridOps) < MaxGridOps
    /\ LET temp    == grid.tempBlockedRules
           added   == SelectSeq(temp, LAMBDA tr : tr.id \notin RuleIds(grid.blockedRules))
           removed == SelectSeq(grid.blockedRules, LAMBDA br : br.id \notin RuleIds(temp))
       IN  IF removed # <<>>
           THEN /\ gridOps' = gridOps \cup
                        {GridOp(FreeGridSeq, "commit", "rules_delete_sent", added, removed, temp)}
                /\ UNCHANGED grid
           ELSE IF added # <<>>
           THEN /\ gridOps' = gridOps \cup
                        {GridOp(FreeGridSeq, "commit", "rules_insert_sent", added, removed, temp)}
                /\ UNCHANGED grid
           ELSE /\ grid' = [grid EXCEPT !.blockedRules = temp, !.isBlockModalOpen = FALSE]
                /\ UNCHANGED gridOps
    /\ UNCHANGED <<appointments, blockedRules, formData, errors, schema, toast, ops,
                   srvAppointments, srvRules, nextId, today, tz, user, session, mounted, searchQuery, profileFetches, authCalls, edit, nextRuleId>>

\* lines 172-190: the batch delete has returned; its error is not read.
saveAfterDelete(o) ==
    /\ o \in gridOps /\ o.kind = "commit" /\ o.phase = "rules_delete_done"
    /\ IF o.added # <<>>
       THEN /\ gridOps' = GridReplace(o, [o EXCEPT !.phase = "rules_insert_sent"])
            /\ UNCHANGED grid
       ELSE /\ grid' = IF o.orphan THEN grid
                       ELSE [grid EXCEPT !.blockedRules = o.temp, !.isBlockModalOpen = FALSE]
            /\ gridOps' = gridOps \ {o}
    /\ UNCHANGED <<appointments, blockedRules, formData, errors, schema, toast, ops,
                   srvAppointments, srvRules, nextId, today, tz, user, session, mounted, searchQuery, profileFetches, authCalls, edit, nextRuleId>>

\* lines 180-187 and 192: the batch insert has returned.
saveAfterInsert(o) ==
    /\ o \in gridOps /\ o.kind = "commit" /\ o.phase = "rules_insert_done"
    /\ IF o.insertOk
       THEN /\ gridOps' = GridReplace(o, [o EXCEPT !.phase = "rules_select_sent"])
            /\ UNCHANGED grid
       ELSE /\ grid' = IF o.orphan THEN grid ELSE [grid EXCEPT !.isBlockModalOpen = FALSE]
            /\ gridOps' = gridOps \ {o}
    /\ UNCHANGED <<appointments, blockedRules, formData, errors, schema, toast, ops,
                   srvAppointments, srvRules, nextId, today, tz, user, session, mounted, searchQuery, profileFetches, authCalls, edit, nextRuleId>>

saveAfterSelect_KeepsWorkingCopy(o) ==
    /\ o \in gridOps /\ o.kind = "commit" /\ o.phase = "rules_select_done"
    /\ grid' = IF o.orphan THEN grid
               ELSE [grid EXCEPT !.blockedRules = o.temp, !.isBlockModalOpen = FALSE]
    /\ gridOps' = gridOps \ {o}
    /\ UNCHANGED <<appointments, blockedRules, formData, errors, schema, toast, ops,
                   srvAppointments, srvRules, nextId, today, tz, user, session, mounted, searchQuery, profileFetches, authCalls, edit, nextRuleId>>

\* lines 185-186 and 192: the re-fetch of all rules has returned.
saveAfterSelect(o) ==
    /\ o \in gridOps /\ o.kind = "commit" /\ o.phase = "rules_select_done"
    /\ grid' = IF o.orphan THEN grid
               ELSE [grid EXCEPT !.blockedRules = IF o.selectOk THEN o.rows ELSE @,
                                 !.isBlockModalOpen = FALSE]
    /\ gridOps' = gridOps \ {o}
    /\ UNCHANGED <<appointments, blockedRules, formData, errors, schema, toast, ops,
                   srvAppointments, srvRules, nextId, today, tz, user, session, mounted, searchQuery, profileFetches, authCalls, edit, nextRuleId>>

\* isTimeBlocked(time, state), lines 91-97, on the rules given.
isTimeBlocked(time, state, dStr, rules) ==
    \E i \in DOMAIN rules :
        /\ rules[i].date = dStr
        /\ rules[i].time = time
        /\ (rules[i].state = Empty \/ rules[i].state = state)

\* blockedRules.find(...) of toggleBlockTime, lines 121-125: the first rule
\* of the date and time that is global or scoped to the column's region.
MatchingSlotRules(time, state, dStr, rules) ==
    SelectSeq(rules, LAMBDA r : /\ r.date = dStr
                                /\ r.time = time
                                /\ (r.state = Empty \/ r.state = state))

\* toggleBlockTime(time, state), lines 118-146, from the click on a slot's
\* lock button (shown when the region's day is not blocked, line 410) up to
\* its await.  The activation keeps the rule list of its render in temp, the
\* rule to delete in removed, or the rule to create in added (id 0: the
\* store assigns it).
toggleBlockTime(time, state) ==
    /\ mounted[GridPage]
    /\ isAdmin
    /\ Cardinality(gridOps) < MaxGridOps
    /\ LET dateStr  == formatDate(grid.selectedDate)
           existing == MatchingSlotRules(time, state, dateStr, grid.blockedRules)
       IN  /\ ~isDayBlocked(dateStr, state, grid.blockedRules)
           /\ gridOps' = gridOps \cup
                 {[(IF existing # <<>>
                    THEN GridOp(FreeGridSeq, "toggle", "slot_delete_sent", <<>>,
                                <<existing[1]>>, grid.blockedRules)
                    ELSE GridOp(FreeGridSeq, "toggle", "slot_insert_sent",
                                <<Rule(0, dateStr, time, state)>>, <<>>,
                                grid.blockedRules))
                   EXCEPT !.slot = <<time, state>>]}
    /\ UNCHANGED grid
    /\ UNCHANGED <<appointments, blockedRules, formData, errors, schema, toast, ops,
                   srvAppointments, srvRules, nextId, today, tz, user, session, mounted, searchQuery, profileFetches, authCalls, edit, nextRuleId>>

\* lines 129-132: the delete has returned.
toggleAfterDelete(o) ==
    /\ o \in gridOps /\ o.kind = "toggle" /\ o.phase = "slot_delete_done"
    /\ grid' = IF o.orphan THEN grid
               ELSE [grid EXCEPT !.blockedRules =
                        IF o.deleteOk
                        THEN SelectSeq(o.temp, LAMBDA r : r.id # o.removed[1].id)
                        ELSE @]
    /\ gridOps' = gridOps \ {o}
    /\ UNCHANGED <<appointments, blockedRules, formData, errors, schema, toast, ops,
                   srvAppointments, srvRules, nextId, today, tz, user, session, mounted, searchQuery, profileFetches, authCalls, edit, nextRuleId>>

\* lines 141-144: the insert has returned, with the new row in rows.
toggleAfterInsert(o) ==
    /\ o \in gridOps /\ o.kind = "toggle" /\ o.phase = "slot_insert_done"
    /\ grid' = IF o.orphan THEN grid
               ELSE [grid EXCEPT !.blockedRules =
                        IF o.insertOk /\ o.rows # <<>> THEN o.temp \o o.rows ELSE @]
    /\ gridOps' = gridOps \ {o}
    /\ UNCHANGED <<appointments, blockedRules, formData, errors, schema, toast, ops,
                   srvAppointments, srvRules, nextId, today, tz, user, session, mounted, searchQuery, profileFetches, authCalls, edit, nextRuleId>>

\* handleDateChange(days), lines 109-113, on the chevron buttons next to the
\* date (lines 271 and 280); the dates shown stay within CalendarDays.
handleDateChange(days) ==
    /\ mounted[GridPage]
    /\ grid.selectedDate + days \in CalendarDays
    /\ grid' = [grid EXCEPT !.selectedDate = @ + days]
    /\ UNCHANGED <<appointments, blockedRules, formData, errors, schema, toast, ops,
                   srvAppointments, srvRules, nextId, today, tz, user, session, mounted, searchQuery, profileFetches, authCalls, edit, gridOps,
                   nextRuleId>>

\* The Today button, line 287: setSelectedDate(new Date()).
selectToday ==
    /\ mounted[GridPage]
    /\ grid' = [grid EXCEPT !.selectedDate = today]
    /\ UNCHANGED <<appointments, blockedRules, formData, errors, schema, toast, ops,
                   srvAppointments, srvRules, nextId, today, tz, user, session, mounted, searchQuery, profileFetches, authCalls, edit, gridOps,
                   nextRuleId>>

\* fetchData of the mount effect, lines 28-70, sent when the effect runs with
\* a user: its state before the appointments select is served.
FetchDataOp == GridOp(FreeGridSeq, "fetch", "grid_appts_sent", <<>>, <<>>, <<>>)

\* fetchData after its first await, lines 36-43: the rows are kept when the
\* select returned data.
fetchDataAfterAppointments(o) ==
    /\ o \in gridOps /\ o.kind = "fetch" /\ o.phase = "grid_appts_done"
    /\ grid' = IF o.orphan THEN grid
               ELSE [grid EXCEPT !.appointments = IF o.selectOk THEN o.rows ELSE @]
    /\ gridOps' = GridReplace(o, [o EXCEPT !.phase = "rules_select_sent", !.rows = <<>>])
    /\ UNCHANGED <<appointments, blockedRules, formData, errors, schema, toast, ops,
                   srvAppointments, srvRules, nextId, today, tz, user, session, mounted, searchQuery, profileFetches, authCalls, edit, nextRuleId>>

\* fetchData after its second await, lines 59-61.
fetchDataAfterRules(o) ==
    /\ o \in gridOps /\ o.kind = "fetch" /\ o.phase = "rules_select_done"
    /\ grid' = IF o.orphan THEN grid
               ELSE [grid EXCEPT !.blockedRules = IF o.selectOk THEN o.rows ELSE @]
    /\ gridOps' = gridOps \ {o}
    /\ UNCHANGED <<appointments, blockedRules, formData, errors, schema, toast, ops,
                   srvAppointments, srvRules, nextId, today, tz, user, session, mounted, searchQuery, profileFetches, authCalls, edit, nextRuleId>>

\* The ScheduleGrid component unmounted: its useState values are gone and
\* its activations go on as orphans.
LeaveScheduleGrid ==
    /\ grid' = GridFirstRender
    /\ gridOps' = {[o EXCEPT !.orphan = TRUE] : o \in gridOps}

\* The ScheduleGrid page is loaded, or left and loaded again, lines 15-70:
\* the component starts from its initial state and the mount effect sends
\* fetchData when there is a user.
mountGrid ==
    /\ session[GridPage]
    /\ Cardinality(gridOps) < MaxGridOps
    /\ grid' = GridFirstRender
    /\ gridOps' = {[o EXCEPT !.orphan = TRUE] : o \in gridOps} \cup
                  (IF user[GridPage] # Empty THEN {FetchDataOp} ELSE {})
    /\ mounted' = [mounted EXCEPT ![GridPage] = TRUE]
    /\ UNCHANGED <<appointments, blockedRules, formData, errors, schema, toast, ops,
                   srvAppointments, srvRules, nextId, today, tz, user, session, searchQuery,
                   profileFetches, authCalls, edit, nextRuleId>>

\* Page p is left for another route of the application (the sidebar links).
unmount(p) ==
    /\ mounted[p]
    /\ IF p = GridPage
       THEN /\ LeaveScheduleGrid
            /\ UNCHANGED <<appointments, blockedRules, formData, errors, schema, toast,
                           ops, edit, searchQuery>>
       ELSE /\ LeaveAppointmentMaker(p)
            /\ ops' = [ops EXCEPT ![p] = {[o EXCEPT !.orphan = TRUE] : o \in @}]
            /\ UNCHANGED <<grid, gridOps>>
    /\ mounted' = [mounted EXCEPT ![p] = FALSE]
    /\ UNCHANGED <<srvAppointments, srvRules, nextId, today, tz, user, session,
                   profileFetches, authCalls, nextRuleId>>

\* The bound on the fetchProfile calls in flight in one browser.
MaxProfileFetches == 1

\* setSession(null) and setUser(null) in the browser of page p:
\* ProtectedRoute (isAuthenticated, line 820) replaces the page by the login
\* route, so a mounted page is unmounted.
SignedOut(p) ==
    /\ session' = [session EXCEPT ![p] = FALSE]
    /\ user' = [user EXCEPT ![p] = Empty]
    /\ mounted' = [mounted EXCEPT ![p] = FALSE]
    /\ IF ~mounted[p]
       THEN UNCHANGED <<appointments, blockedRules, formData, errors, schema, toast,
                        ops, edit, searchQuery, grid, gridOps>>
       ELSE IF p = GridPage
       THEN /\ LeaveScheduleGrid
            /\ UNCHANGED <<appointments, blockedRules, formData, errors, schema, toast,
                           ops, edit, searchQuery>>
       ELSE /\ LeaveAppointmentMaker(p)
            /\ ops' = [ops EXCEPT ![p] = {[o EXCEPT !.orphan = TRUE] : o \in @}]
            /\ UNCHANGED <<grid, gridOps>>
    /\ UNCHANGED <<srvAppointments, srvRules, nextId, today, tz, profileFetches,
                   nextRuleId>>

\* The callback of onAuthStateChange, lines 736-744, in the browser of page
\* p.  With a session (a sign-in, a refreshed token) it keeps the session and
\* calls fetchProfile.  Without one it clears session and user.
onAuthStateChange(p, hasSession) ==
    IF hasSession
    THEN /\ profileFetches[p] < MaxProfileFetches
         /\ session' = [session EXCEPT ![p] = TRUE]
         /\ profileFetches' = [profileFetches EXCEPT ![p] = @ + 1]
         /\ UNCHANGED <<appointments, blockedRules, formData, errors, schema, toast, ops,
                        srvAppointments, srvRules, nextId, today, tz, user, mounted,
                        searchQuery, authCalls, edit, grid, gridOps, nextRuleId>>
    ELSE /\ SignedOut(p)
         /\ UNCHANGED authCalls

\* The bound on the logout calls, and on the updateUser calls, under way in
\* one browser.
MaxAuthCalls == 1

\* handleLogout of the settings route (unnamed/part_002 lines 84-91), in the
\* browser of page p: it starts the timer whose callback awaits logout().
\* The settings route is shown, so page p is not mounted, and it renders
\* only with a user (it reads user.avatar, user.name, ... at lines 121-160);
\* nothing stops the agent from going to page p before the callback ends.
handleLogout(p) ==
    /\ session[p] /\ ~mounted[p]
    /\ user[p] # Empty
    /\ authCalls[p].logout < MaxAuthCalls
    /\ authCalls' = [authCalls EXCEPT ![p].logout = @ + 1]
    /\ UNCHANGED <<appointments, blockedRules, formData, errors, schema, toast, ops,
                   srvAppointments, srvRules, nextId, today, tz, user, session, mounted,
                   searchQuery, profileFetches, edit, grid, gridOps, nextRuleId>>

\* logout of the AuthProvider, lines 808-817, at its finally, after the
\* awaited signOut returned or threw: setUser(null) and setSession(null),
\* whatever route the browser shows by then.
logout(p) ==
    /\ authCalls[p].logout > 0
    /\ authCalls' = [authCalls EXCEPT ![p].logout = @ - 1]
    /\ SignedOut(p)

\* The effect that depends on user runs again on mounted page p and fetches
\* (AppointmentMaker lines 76-78, ScheduleGrid lines 28-70); the page keeps
\* its state.
RunUserEffect(p) ==
    IF p = GridPage
    THEN /\ Cardinality(gridOps) < MaxGridOps
         /\ gridOps' = gridOps \cup {FetchDataOp}
         /\ UNCHANGED ops
    ELSE /\ Cardinality(ops[p]) < MaxOps
         /\ ops' = [ops EXCEPT ![p] = @ \cup {NewOp(FreeSeq(p), "fetch", "appts_sent")}]
         /\ UNCHANGED gridOps

\* fetchProfile of the AuthProvider, lines 750-775, after its await, in the
\* browser of page p.  role is the role of the row the profiles select
\* returned, or Empty when it returned an error or no row: then user stays
\* as it is.  With a row setUser stores a new object, and on a mounted page
\* the effect that depends on user runs again.
fetchProfileReturns(p, role) ==
    /\ role \in Roles \cup {Empty}
    /\ profileFetches[p] > 0
    /\ profileFetches' = [profileFetches EXCEPT ![p] = @ - 1]
    /\ user' = IF role = Empty THEN user ELSE [user EXCEPT ![p] = role]
    /\ IF role = Empty \/ ~mounted[p]
       THEN UNCHANGED <<ops, gridOps>>
       ELSE RunUserEffect(p)
    /\ UNCHANGED <<appointments, blockedRules, formData, errors, schema, toast,
                   srvAppointments, srvRules, nextId, today, tz, session, mounted,
                   searchQuery, authCalls, edit, grid, nextRuleId>>

\* updateUser of the AuthProvider, lines 777-792, up to its await, called
\* with a name or an e-mail address on the settings route (unnamed/part_002
\* lines 131, 140) or with an avatar on the profile route (Profile.tsx line
\* 46), so page p is not mounted.  Without a user it returns at line 778.
updateUser(p) ==
    /\ session[p] /\ ~mounted[p]
    /\ user[p] # Empty
    /\ authCalls[p].updateUser < MaxAuthCalls
    /\ authCalls' = [authCalls EXCEPT ![p].updateUser = @ + 1]
    /\ UNCHANGED <<appointments, blockedRules, formData, errors, schema, toast, ops,
                   srvAppointments, srvRules, nextId, today, tz, user, session, mounted,
                   searchQuery, profileFetches, edit, grid, gridOps, nextRuleId>>

\* updateUser after its await, lines 794-799, whatever route the browser
\* shows by then.  ok is whether the profiles update returned no error: then
\* setUser(prev => prev ? { ...prev, ...data } : null) stores a new object
\* with the role of the old one (the callers pass no role) unless user is
\* null, and on a mounted page the effect that depends on user runs again.
\* An error is logged and nothing else happens.
updateUserReturns(p, ok) ==
    /\ authCalls[p].updateUser > 0
    /\ authCalls' = [authCalls EXCEPT ![p].updateUser = @ - 1]
    /\ IF ok /\ user[p] # Empty /\ mounted[p]
       THEN RunUserEffect(p)
       ELSE UNCHANGED <<ops, gridOps>>
    /\ UNCHANGED <<appointments, blockedRules, formData, errors, schema, toast,
                   srvAppointments, srvRules, nextId, today, tz, user, session, mounted,
                   searchQuery, profileFetches, edit, grid, nextRuleId>>

(***************************************************************************)
(* The store's block_rules table serving the admin's requests.  A batch    *)
(* is one statement: it is applied whole or not at all.  select('*') has   *)
(* no order clause, so the rows come back in any order.                    *)
(***************************************************************************)
MaxRuleId == 5

RowOrders(S) ==
    {f \in [1..Cardinality(S) -> S] : \A i, j \in 1..Cardinality(S) : f[i] = f[j] => i = j}

\* delete().in('id', removed.map(r => r.id)), line 172.
storeDeleteRules(o, ok) ==
    /\ o \in gridOps /\ o.phase = "rules_delete_sent"
    /\ srvRules' = IF ok THEN {r \in srvRules : r.id \notin RuleIds(o.removed)}
                   ELSE srvRules
    /\ gridOps' = GridReplace(o, [o EXCEPT !.phase = "rules_delete_done", !.deleteOk = ok])
    /\ UNCHANGED <<appointments, blockedRules, formData, errors, schema, toast, ops,
                   srvAppointments, nextId, today, tz, user, session, mounted, searchQuery, profileFetches, authCalls, edit, grid, nextRuleId>>

\* insert(toInsert).select(), lines 179-180: the rows get the store's ids.
storeInsertRules(o, ok) ==
    /\ o \in gridOps /\ o.phase = "rules_insert_sent"
    /\ IF ok
       THEN /\ nextRuleId + Len(o.added) - 1 <= MaxRuleId
            /\ srvRules' = srvRules \cup
                    {Rule(nextRuleId + i - 1, o.added[i].date, o.added[i].time,
                          o.added[i].state) : i \in DOMAIN o.added}
            /\ nextRuleId' = nextRuleId + Len(o.added)
       ELSE UNCHANGED <<srvRules, nextRuleId>>
    /\ gridOps' = GridReplace(o, [o EXCEPT !.phase = "rules_insert_done", !.insertOk = ok])
    /\ UNCHANGED <<appointments, blockedRules, formData, errors, schema, toast, ops,
                   srvAppointments, nextId, today, tz, user, session, mounted, searchQuery, profileFetches, authCalls, edit, grid>>

\* from('block_rules').select('*'), lines 56-58 and 185.
storeSelectAllRules(o, ok) ==
    /\ o \in gridOps /\ o.phase = "rules_select_sent"
    /\ \E rows \in (IF ok THEN RowOrders(srvRules) ELSE {<<>>}) :
            gridOps' = GridReplace(o, [o EXCEPT !.phase = "rules_select_done",
                                                !.selectOk = ok, !.rows = rows])
    /\ UNCHANGED <<appointments, blockedRules, formData, errors, schema, toast, ops,
                   srvAppointments, srvRules, nextId, today, tz, user, session, mounted, searchQuery, profileFetches, authCalls, edit, grid, nextRuleId>>

\* from('appointments').select('*'), lines 33-35: no order clause.
storeSelectAllAppointments(o, ok) ==
    /\ o \in gridOps /\ o.phase = "grid_appts_sent"
    /\ \E rows \in (IF ok THEN RowOrders(srvAppointments) ELSE {<<>>}) :
            gridOps' = GridReplace(o, [o EXCEPT !.phase = "grid_appts_done",
                                                !.selectOk = ok, !.rows = rows])
    /\ UNCHANGED <<appointments, blockedRules, formData, errors, schema, toast, ops,
                   srvAppointments, srvRules, nextId, today, tz, user, session, mounted, searchQuery, profileFetches, authCalls, edit, grid, nextRuleId>>

\* delete().eq('id', existing.id), line 129.
storeDeleteRule(o, ok) ==
    /\ o \in gridOps /\ o.phase = "slot_delete_sent"
    /\ srvRules' = IF ok THEN {r \in srvRules : r.id # o.removed[1].id} ELSE srvRules
    /\ gridOps' = GridReplace(o, [o EXCEPT !.phase = "slot_delete_done", !.deleteOk = ok])
    /\ UNCHANGED <<appointments, blockedRules, formData, errors, schema, toast, ops,
                   srvAppointments, nextId, today, tz, user, session, mounted, searchQuery, profileFetches, authCalls, edit, grid, nextRuleId>>

\* insert([newRule]).select().single(), line 141: the row with its new id.
storeInsertRule(o, ok) ==
    /\ o \in gridOps /\ o.phase = "slot_insert_sent"
    /\ IF ok
       THEN /\ nextRuleId <= MaxRuleId
            /\ LET data == [o.added[1] EXCEPT !.id = nextRuleId]
               IN  /\ srvRules' = srvRules \cup {data}
                   /\ gridOps' = GridReplace(o, [o EXCEPT !.phase = "slot_insert_done",
                                                          !.insertOk = TRUE,
                                                          !.rows = <<data>>])
            /\ nextRuleId' = nextRuleId + 1
       ELSE /\ gridOps' = GridReplace(o, [o EXCEPT !.phase = "slot_insert_done",
                                                   !.insertOk = FALSE])
            /\ UNCHANGED <<srvRules, nextRuleId>>
    /\ UNCHANGED <<appointments, blockedRules, formData, errors, schema, toast, ops,
                   srvAppointments, nextId, today, tz, user, session, mounted, searchQuery, profileFetches, authCalls, edit, grid>>

(***************************************************************************)
(* SpecEngine and SpecCalendar: the engine on snapshots drawn from bounded *)
(* families.  The local appointment list holds n bookings of one slot, n   *)
(* up to one more than the region's capacity and up to MaxBookings (which  *)
(* fills GA's capacity of 9); the local rule set holds up to               *)
(* MaxSnapshotRules rules, whole-day or on that slot's time, global or     *)
(* scoped to GA.  The form handlers apply the engine.  SpecEngine fixes    *)
(* the clock and exercises the time select; SpecCalendar draws today and   *)
(* the time zone as well and exercises the calendar.                       *)
(***************************************************************************)
MaxBookings == 9
MaxSnapshotRules == 2

SnapshotDate == "2024-04-01"
SnapshotTime == "2:00 PM"

FilledForm(state, date, time) ==
    [homeOwner |-> JohnDoe, state |-> state, appointmentDate |-> date,
     appointmentTime |-> time, notes |-> <<>>]

BookingList(state, n) ==
    [i \in 1..n |-> Record(i, FilledForm(state, SnapshotDate, SnapshotTime), <<>>)]

Min(a, b) == IF a <= b THEN a ELSE b

ApptSnapshots ==
    {BookingList(s, n) : s \in {"GA", "AL", "SC"}, n \in 0..MaxBookings} \cap
    UNION {{BookingList(s, n) : n \in 0..(STATE_CONFIG[s].capacity + 1)} : s \in {"GA", "AL", "SC"}}

RuleShapes ==
    {[date |-> d, time |-> t, state |-> s] :
        d \in {"2024-04-01", "2024-03-29"}, t \in {Empty, SnapshotTime}, s \in {Empty, "GA"}}

\* A number for each shape, used as the rule's id.
ShapeId(sh) ==
    100 + (IF sh.date = "2024-04-01" THEN 4 ELSE 0) + (IF sh.time = Empty THEN 0 ELSE 2)
        + (IF sh.state = Empty THEN 0 ELSE 1)

RuleSnapshots ==
    {{Rule(ShapeId(sh), sh.date, sh.time, sh.state) : sh \in shapes} :
        shapes \in {S \in SUBSET RuleShapes : Cardinality(S) <= MaxSnapshotRules}}

InitSnapshot ==
    /\ appointments \in [Clients -> ApptSnapshots]
    /\ appointments[2] = <<>>
    /\ blockedRules \in [Clients -> RuleSnapshots]
    /\ blockedRules[2] = {}
    /\ formData = [c \in Clients |-> EmptyForm]
    /\ errors = [c \in Clients |-> {}]
    /\ schema = [c \in Clients |-> DEFAULT_SCHEMA]
    /\ toast = [c \in Clients |-> Empty]
    /\ edit = [c \in Clients |-> NoEdit]
    /\ user = AgentsLoaded
    /\ PagesShown
    /\ ops = [c \in Clients |-> {}]
    /\ srvAppointments = {}
    /\ srvRules = {}
    /\ nextId = 1

InitEngine ==
    /\ InitSnapshot
    /\ today = 88
    /\ tz = "UTC"
    /\ InitGridIdle

NextEngine ==
    \/ \E v \in {"GA", "TN", "SC", Empty} : onChangeState(1, v)
    \/ selectDate(1, 91)
    \/ \E t \in {SnapshotTime, "9:00 AM"} : onChangeTime(1, t)

SpecEngine == InitEngine /\ [][NextEngine]_vars

CalendarTodays == {88, 89}

InitCalendar ==
    /\ InitSnapshot
    /\ today \in CalendarTodays
    /\ tz \in TimeZones
    /\ InitGridIdle

NextCalendar ==
    \/ \E v \in StateOptions \cup {Empty} : onChangeState(1, v)
    \/ \E d \in CalendarDays : selectDate(1, d)

SpecCalendar == InitCalendar /\ [][NextCalendar]_vars

(***************************************************************************)
(* SpecForm: one agent's page from its mount.  The page starts with empty  *)
(* lists and the fetch of the mount effect (lines 76-78) in flight, while  *)
(* the store already holds what other agents and the admin wrote: possibly *)
(* a booking that fills the SC slot, possibly a rule on that slot.  The    *)
(* agent fills the form and saves.                                         *)
(***************************************************************************)
\* The calendar day of SnapshotDate.
FormDay == CHOOSE d \in CalendarDays : FormatDate(d) = SnapshotDate

\* The Friday of CalendarDays.
OtherDay == CHOOSE d \in CalendarDays : GetDay(d) = 5

SCBooking(id) ==
    Record(id, FilledForm("SC", SnapshotDate, SnapshotTime),
           generateClipboardText(FilledForm("SC", SnapshotDate, SnapshotTime), DEFAULT_SCHEMA))

SlotRule == Rule(106, SnapshotDate, SnapshotTime, Empty)

InitForm ==
    /\ appointments = [c \in Clients |-> <<>>]
    /\ blockedRules = [c \in Clients |-> {}]
    /\ formData = [c \in Clients |-> EmptyForm]
    /\ errors = [c \in Clients |-> {}]
    /\ schema = [c \in Clients |-> DEFAULT_SCHEMA]
    /\ toast = [c \in Clients |-> Empty]
    /\ edit = [c \in Clients |-> NoEdit]
    /\ user = AgentsLoaded
    /\ PagesShown
    /\ ops = [c \in Clients |-> IF c = 1 THEN {NewOp(1, "fetch", "appts_sent")} ELSE {}]
    /\ srvAppointments \in {{}, {SCBooking(1)}}
    /\ srvRules \in {{}, {SlotRule}}
    /\ nextId = 2
    /\ today = 88
    /\ tz = "UTC"
    /\ InitGridIdle

NextForm ==
    \/ \E v \in {JohnDoe, <<>>} : onChangeInput(1, "homeOwner", v)
    \/ \E v \in {"SC", Empty} : onChangeState(1, v)
    \/ selectDate(1, FormDay)
    \/ \E t \in {SnapshotTime, Empty} : onChangeTime(1, t)
    \/ clearForm(1)
    \/ toastTimeout(1)
    \/ handleSaveAndCopy(1)
    \/ \E o \in ops[1], ok \in BOOLEAN : storeInsert(1, o, ok)
    \/ \E o \in ops[1] : saveReturns(1, o)
    \/ \E o \in ops[1], ok \in BOOLEAN : copyReturns(1, o, ok)
    \/ \E o \in ops[1] : storeSelectAppointments(1, o, TRUE)
    \/ \E o \in ops[1] : fetchAppointmentsReturns(1, o)
    \/ \E o \in ops[1] : storeSelectRules(1, o, TRUE)
    \/ \E o \in ops[1] : fetchRulesReturns(1, o)

SpecForm == InitForm /\ [][NextForm]_vars

(***************************************************************************)
(* SpecDates: the form of a loaded page over an empty store, with two      *)
(* regions in the state select and two open dates in the calendar, so that *)
(* the agent changes the state and the date while a date and a time are    *)
(* chosen; the store takes the one insert it has an identifier for.        *)
(***************************************************************************)
InitDates ==
    /\ appointments = [c \in Clients |-> <<>>]
    /\ blockedRules = [c \in Clients |-> {}]
    /\ formData = [c \in Clients |-> EmptyForm]
    /\ errors = [c \in Clients |-> {}]
    /\ schema = [c \in Clients |-> DEFAULT_SCHEMA]
    /\ toast = [c \in Clients |-> Empty]
    /\ edit = [c \in Clients |-> NoEdit]
    /\ user = AgentsLoaded
    /\ PagesShown
    /\ ops = [c \in Clients |-> {}]
    /\ srvAppointments = {}
    /\ srvRules = {}
    /\ nextId = MaxId
    /\ today = 88
    /\ tz = "UTC"
    /\ InitGridIdle

NextDates ==
    \/ \E v \in {JohnDoe, <<>>} : onChangeInput(1, "homeOwner", v)
    \/ \E v \in {"SC", "GA", Empty} : onChangeState(1, v)
    \/ \E d \in {FormDay, OtherDay} : selectDate(1, d)
    \/ \E t \in {SnapshotTime, Empty} : onChangeTime(1, t)
    \/ clearForm(1)
    \/ ops[1] = {} /\ handleSaveAndCopy(1)
    \/ \E o \in ops[1], ok \in BOOLEAN : storeInsert(1, o, ok)
    \/ \E o \in ops[1] : saveReturns(1, o)
    \/ \E o \in ops[1], ok \in BOOLEAN : copyReturns(1, o, ok)

SpecDates == InitDates /\ [][NextDates]_vars

(***************************************************************************)
(* SpecSchema: one agent's page once the fetch of the mount has returned   *)
(* from an empty store.  The agent fills the form, reorders and deletes    *)
(* fields in the form builder, resets the schema, and saves; the store has *)
(* one identifier left within MaxId.                                       *)
(***************************************************************************)
InitSchema ==
    /\ appointments = [c \in Clients |-> <<>>]
    /\ blockedRules = [c \in Clients |-> {}]
    /\ formData = [c \in Clients |-> EmptyForm]
    /\ errors = [c \in Clients |-> {}]
    /\ schema = [c \in Clients |-> DEFAULT_SCHEMA]
    /\ toast = [c \in Clients |-> Empty]
    /\ edit = [c \in Clients |-> NoEdit]
    /\ user = AgentsLoaded
    /\ PagesShown
    /\ ops = [c \in Clients |-> {}]
    /\ srvAppointments = {}
    /\ srvRules = {}
    /\ nextId = MaxId
    /\ today = 88
    /\ tz = "UTC"
    /\ InitGridIdle

NextSchema ==
    \/ onChangeInput(1, "homeOwner", BobGrinning)
    \/ \E v \in {"SC", Empty} : onChangeState(1, v)
    \/ selectDate(1, FormDay)
    \/ onChangeTime(1, SnapshotTime)
    \/ moveFieldUp(1, 2)
    \/ moveFieldDown(1, 3)
    \/ deleteField(1, "appointmentTime")
    \/ resetSchema(1)
    \/ handleSaveAndCopy(1)
    \/ \E o \in ops[1] : storeInsert(1, o, TRUE)
    \/ \E o \in ops[1] : saveReturns(1, o)
    \/ \E o \in ops[1], ok \in BOOLEAN : copyReturns(1, o, ok)

SpecSchema == InitSchema /\ [][NextSchema]_vars

(***************************************************************************)
(* SpecSingle: a single agent whose lists equal the store's tables, with   *)
(* no slot over capacity, and who starts a save or a delete only when no   *)
(* earlier handler is still waiting.  The form can be edited at any time,  *)
(* and the store may fail any insert or delete.                            *)
(***************************************************************************)
ALBooking(id) ==
    Record(id, FilledForm("AL", SnapshotDate, SnapshotTime),
           generateClipboardText(FilledForm("AL", SnapshotDate, SnapshotTime), DEFAULT_SCHEMA))

InitSingle ==
    /\ srvAppointments \in {{}, {SCBooking(1)}, {ALBooking(1)}}
    /\ srvRules = {}
    /\ appointments = [c \in Clients |-> IF c = 1 THEN NewestFirst(srvAppointments) ELSE <<>>]
    /\ blockedRules = [c \in Clients |-> {}]
    /\ formData = [c \in Clients |-> EmptyForm]
    /\ errors = [c \in Clients |-> {}]
    /\ schema = [c \in Clients |-> DEFAULT_SCHEMA]
    /\ toast = [c \in Clients |-> Empty]
    /\ edit = [c \in Clients |-> NoEdit]
    /\ user = AgentsLoaded
    /\ PagesShown
    /\ ops = [c \in Clients |-> {}]
    /\ nextId = 2
    /\ today = 88
    /\ tz = "UTC"
    /\ InitGridIdle

NextSingle ==
    \/ onChangeInput(1, "homeOwner", JohnDoe)
    \/ \E v \in {"SC", "AL"} : onChangeState(1, v)
    \/ selectDate(1, FormDay)
    \/ onChangeTime(1, SnapshotTime)
    \/ ops[1] = {} /\ handleSaveAndCopy(1)
    \/ \E o \in ops[1], ok \in BOOLEAN : storeInsert(1, o, ok)
    \/ \E o \in ops[1] : saveReturns(1, o)
    \/ \E o \in ops[1], ok \in BOOLEAN : copyReturns(1, o, ok)
    \/ ops[1] = {} /\ \E id \in 1..MaxId : handleDelete(1, id)
    \/ \E o \in ops[1], ok \in BOOLEAN : storeDelete(1, o, ok)
    \/ \E o \in ops[1] : deleteReturns(1, o)
    \/ \E o \in ops[1] : delayElapsed(1, o)
    \/ \E o \in ops[1] : storeSelectAppointments(1, o, TRUE)
    \/ \E o \in ops[1] : fetchAppointmentsReturns(1, o)
    \/ \E o \in ops[1] : storeSelectRules(1, o, TRUE)
    \/ \E o \in ops[1] : fetchRulesReturns(1, o)

SpecSingle == InitSingle /\ [][NextSingle]_vars

(***************************************************************************)
(* SpecRace: two agents' pages over an empty store.  Both pages hold empty *)
(* lists, which show every slot free; the first page's fetch has returned, *)
(* the second page has just mounted and its fetch is in flight.  Each      *)
(* agent fills the form for the same SC slot and saves, and clicks again   *)
(* only when the store has served the earlier insert.                      *)
(***************************************************************************)
InitRace ==
    /\ appointments = [c \in Clients |-> <<>>]
    /\ blockedRules = [c \in Clients |-> {}]
    /\ formData = [c \in Clients |-> EmptyForm]
    /\ errors = [c \in Clients |-> {}]
    /\ schema = [c \in Clients |-> DEFAULT_SCHEMA]
    /\ toast = [c \in Clients |-> Empty]
    /\ edit = [c \in Clients |-> NoEdit]
    /\ user = AgentsLoaded
    /\ PagesShown
    /\ ops = [c \in Clients |-> IF c = 2 THEN {NewOp(1, "fetch", "appts_sent")} ELSE {}]
    /\ srvAppointments = {}
    /\ srvRules = {}
    /\ nextId = 2
    /\ today = 88
    /\ tz = "UTC"
    /\ InitGridIdle

\* A clipboard write changes the toast alone; here it ends before the page's
\* next event.
NextRace ==
    \E c \in Clients :
        \/ /\ CopiesSent(ops[c]) = {}
           /\ \/ onChangeInput(c, "homeOwner", JohnDoe)
              \/ onChangeState(c, "SC")
              \/ selectDate(c, FormDay)
              \/ onChangeTime(c, SnapshotTime)
              \/ InsertsSent(ops[c]) = {} /\ handleSaveAndCopy(c)
              \/ \E o \in ops[c] : storeInsert(c, o, TRUE)
              \/ \E o \in ops[c] : saveReturns(c, o)
              \/ \E o \in ops[c] : storeSelectAppointments(c, o, TRUE)
              \/ \E o \in ops[c] : fetchAppointmentsReturns(c, o)
              \/ \E o \in ops[c] : storeSelectRules(c, o, TRUE)
              \/ \E o \in ops[c] : fetchRulesReturns(c, o)
        \/ \E o \in ops[c] : copyReturns(c, o, TRUE)

SpecRace == InitRace /\ [][NextRace]_vars

(***************************************************************************)
(* SpecDay: the engine on one day's snapshots.  The local list holds one   *)
(* SC booking in each of the first k operating hours of SnapshotDate, the  *)
(* local rule set a global slot rule on each of the last j operating       *)
(* hours, and possibly a whole-day rule scoped to GA; k and j range up to  *)
(* the number of operating hours, so the day can be full.                  *)
(***************************************************************************)
HourBookings(k) ==
    [i \in 1..k |->
        Record(i, FilledForm("SC", SnapshotDate, OPERATING_HOURS[i]),
               generateClipboardText(FilledForm("SC", SnapshotDate, OPERATING_HOURS[i]),
                                     DEFAULT_SCHEMA))]

HourRules(j) ==
    {Rule(110 + i, SnapshotDate, OPERATING_HOURS[i], Empty) :
        i \in (Len(OPERATING_HOURS) - j + 1)..Len(OPERATING_HOURS)}

GADayRule == Rule(105, SnapshotDate, Empty, "GA")

InitDay ==
    /\ \E k \in 0..Len(OPERATING_HOURS) :
            appointments = [c \in Clients |-> IF c = 1 THEN HourBookings(k) ELSE <<>>]
    /\ \E j \in 0..Len(OPERATING_HOURS), extra \in {{}, {GADayRule}} :
            blockedRules = [c \in Clients |-> IF c = 1 THEN HourRules(j) \cup extra ELSE {}]
    /\ formData = [c \in Clients |-> EmptyForm]
    /\ errors = [c \in Clients |-> {}]
    /\ schema = [c \in Clients |-> DEFAULT_SCHEMA]
    /\ toast = [c \in Clients |-> Empty]
    /\ edit = [c \in Clients |-> NoEdit]
    /\ user = AgentsLoaded
    /\ PagesShown
    /\ ops = [c \in Clients |-> {}]
    /\ srvAppointments = {}
    /\ srvRules = {}
    /\ nextId = 1
    /\ today = 88
    /\ tz = "UTC"
    /\ InitGridIdle

NextDay ==
    \/ \E v \in {"SC", "AL", "GA", Empty} : onChangeState(1, v)
    \/ \E d \in CalendarDays : selectDate(1, d)
    \/ \E t \in Hours : onChangeTime(1, t)

SpecDay == InitDay /\ [][NextDay]_vars

(***************************************************************************)
(* SpecPage: a single agent whose lists equal the store's tables (one SC   *)
(* booking) and who saves and deletes without waiting for the earlier      *)
(* handlers; the store may fail any delete and has one identifier left     *)
(* within MaxId.                                                           *)
(***************************************************************************)
InitPage ==
    /\ srvAppointments = {SCBooking(1)}
    /\ srvRules = {}
    /\ appointments = [c \in Clients |-> IF c = 1 THEN NewestFirst(srvAppointments) ELSE <<>>]
    /\ blockedRules = [c \in Clients |-> {}]
    /\ formData = [c \in Clients |-> EmptyForm]
    /\ errors = [c \in Clients |-> {}]
    /\ schema = [c \in Clients |-> DEFAULT_SCHEMA]
    /\ toast = [c \in Clients |-> Empty]
    /\ edit = [c \in Clients |-> NoEdit]
    /\ user = AgentsLoaded
    /\ PagesShown
    /\ ops = [c \in Clients |-> {}]
    /\ nextId = MaxId
    /\ today = 88
    /\ tz = "UTC"
    /\ InitGridIdle

NextPage ==
    \/ onChangeInput(1, "homeOwner", JohnDoe)
    \/ onChangeState(1, "AL")
    \/ selectDate(1, FormDay)
    \/ onChangeTime(1, SnapshotTime)
    \/ handleSaveAndCopy(1)
    \/ \E o \in ops[1] : storeInsert(1, o, TRUE)
    \/ \E o \in ops[1] : saveReturns(1, o)
    \/ \E o \in ops[1], ok \in BOOLEAN : copyReturns(1, o, ok)
    \/ \E id \in 1..MaxId : handleDelete(1, id)
    \/ \E o \in ops[1], ok \in BOOLEAN : storeDelete(1, o, ok)
    \/ \E o \in ops[1] : deleteReturns(1, o)
    \/ \E o \in ops[1] : delayElapsed(1, o)
    \/ \E o \in ops[1] : storeSelectAppointments(1, o, TRUE)
    \/ \E o \in ops[1] : fetchAppointmentsReturns(1, o)
    \/ \E o \in ops[1] : storeSelectRules(1, o, TRUE)
    \/ \E o \in ops[1] : fetchRulesReturns(1, o)

SpecPage == InitPage /\ [][NextPage]_vars

\* SpecPageOk: the same page and agent, with a store that applies every request.
NextPageOk ==
    \/ onChangeInput(1, "homeOwner", JohnDoe)
    \/ onChangeState(1, "AL")
    \/ selectDate(1, FormDay)
    \/ onChangeTime(1, SnapshotTime)
    \/ handleSaveAndCopy(1)
    \/ \E o \in ops[1] : storeInsert(1, o, TRUE)
    \/ \E o \in ops[1] : saveReturns(1, o)
    \/ \E o \in ops[1], ok \in BOOLEAN : copyReturns(1, o, ok)
    \/ \E id \in 1..MaxId : handleDelete(1, id)
    \/ \E o \in ops[1] : storeDelete(1, o, TRUE)
    \/ \E o \in ops[1] : deleteReturns(1, o)
    \/ \E o \in ops[1] : delayElapsed(1, o)
    \/ \E o \in ops[1] : storeSelectAppointments(1, o, TRUE)
    \/ \E o \in ops[1] : fetchAppointmentsReturns(1, o)
    \/ \E o \in ops[1] : storeSelectRules(1, o, TRUE)
    \/ \E o \in ops[1] : fetchRulesReturns(1, o)

SpecPageOk == InitPage /\ [][NextPageOk]_vars

(***************************************************************************)
(* SpecGrid: the admin's ScheduleGrid page after its mount fetch, editing  *)
(* whole-day blocks in the calendar modal and committing them.  The store  *)
(* holds nothing, or a global whole-day rule and a rule on one hour of the *)
(* snapshot date, or a whole-day rule for GA on that date and a rule on    *)
(* another date.  The admin toggles the snapshot date and waits for a      *)
(* commit to end before the next click; the store may fail any request.    *)
(***************************************************************************)
GlobalDayRule == Rule(1, SnapshotDate, Empty, Empty)

GAWholeDayRule == Rule(2, SnapshotDate, Empty, "GA")

HourRule == Rule(3, SnapshotDate, SnapshotTime, Empty)

OtherDayRule == Rule(1, FormatDate(OtherDay), Empty, Empty)

InitGrid ==
    /\ srvAppointments = {}
    /\ srvRules \in {{}, {GlobalDayRule, HourRule}, {GAWholeDayRule, OtherDayRule}}
    /\ appointments = [c \in Clients |-> <<>>]
    /\ blockedRules = [c \in Clients |-> {}]
    /\ formData = [c \in Clients |-> EmptyForm]
    /\ errors = [c \in Clients |-> {}]
    /\ schema = [c \in Clients |-> DEFAULT_SCHEMA]
    /\ toast = [c \in Clients |-> Empty]
    /\ edit = [c \in Clients |-> NoEdit]
    /\ user = ProfilesLoaded
    /\ PagesShown
    /\ ops = [c \in Clients |-> {}]
    /\ nextId = 1
    /\ today = OtherDay
    /\ tz = "UTC"
    /\ \E rows \in RowOrders(srvRules) :
            grid = [appointments |-> <<>>, blockedRules |-> rows, selectedDate |-> today,
                    isBlockModalOpen |-> FALSE, tempBlockedRules |-> <<>>,
                    blockStateFilter |-> "ALL"]
    /\ gridOps = {}
    /\ nextRuleId = 4

NextGrid ==
    \/ gridOps = {} /\ openBlockModal
    \/ gridOps = {} /\ closeBlockModal
    \/ \E f \in {"ALL", "GA"} : gridOps = {} /\ setBlockStateFilter(f)
    \/ gridOps = {} /\ toggleDateBlockFromCalendar(FormDay)
    \/ gridOps = {} /\ saveBlockModal
    \/ \E o \in gridOps, ok \in BOOLEAN : storeDeleteRules(o, ok)
    \/ \E o \in gridOps : saveAfterDelete(o)
    \/ \E o \in gridOps, ok \in BOOLEAN : storeInsertRules(o, ok)
    \/ \E o \in gridOps : saveAfterInsert(o)
    \/ \E o \in gridOps, ok \in BOOLEAN : storeSelectAllRules(o, ok)
    \/ \E o \in gridOps : saveAfterSelect(o)

SpecGrid == InitGrid /\ [][NextGrid]_vars

\* SpecGridOk: the same page and admin, with a store that serves every request.
NextGridOk ==
    \/ gridOps = {} /\ openBlockModal
    \/ gridOps = {} /\ closeBlockModal
    \/ \E f \in {"ALL", "GA"} : gridOps = {} /\ setBlockStateFilter(f)
    \/ gridOps = {} /\ toggleDateBlockFromCalendar(FormDay)
    \/ gridOps = {} /\ saveBlockModal
    \/ \E o \in gridOps : storeDeleteRules(o, TRUE)
    \/ \E o \in gridOps : saveAfterDelete(o)
    \/ \E o \in gridOps : storeInsertRules(o, TRUE)
    \/ \E o \in gridOps : saveAfterInsert(o)
    \/ \E o \in gridOps : storeSelectAllRules(o, TRUE)
    \/ \E o \in gridOps : saveAfterSelect(o)

SpecGridOk == InitGrid /\ [][NextGridOk]_vars

(***************************************************************************)
(* SpecSlots: the admin toggles slot blocks of GA in the grid of the       *)
(* snapshot date and of the day before, also while an earlier toggle of    *)
(* another slot is in flight; the store may fail a request.  At the start  *)
(* the store holds no rule, or a global rule on the snapshot hour.         *)
(***************************************************************************)
SlotTimes == {SnapshotTime, "3:00 PM"}

SlotStates == {"GA", "AL"}

\* The dates the admin looks at: the snapshot date and the day before.
SlotDays == {FormDay - 1, FormDay}

InitSlots ==
    /\ srvAppointments = {}
    /\ srvRules \in {{}, {HourRule}}
    /\ appointments = [c \in Clients |-> <<>>]
    /\ blockedRules = [c \in Clients |-> {}]
    /\ formData = [c \in Clients |-> EmptyForm]
    /\ errors = [c \in Clients |-> {}]
    /\ schema = [c \in Clients |-> DEFAULT_SCHEMA]
    /\ toast = [c \in Clients |-> Empty]
    /\ edit = [c \in Clients |-> NoEdit]
    /\ user = ProfilesLoaded
    /\ PagesShown
    /\ ops = [c \in Clients |-> {}]
    /\ nextId = 1
    /\ today = FormDay
    /\ tz = "UTC"
    /\ \E rows \in RowOrders(srvRules) :
            grid = [appointments |-> <<>>, blockedRules |-> rows, selectedDate |-> today,
                    isBlockModalOpen |-> FALSE, tempBlockedRules |-> <<>>,
                    blockStateFilter |-> "ALL"]
    /\ gridOps = {}
    /\ nextRuleId = 4

\* An activation of toggleBlockTime for this slot (time and region column)
\* is in flight.
SlotInFlight(time, state) == \E o \in gridOps : o.slot = <<time, state>>

NextSlots ==
    \/ selectToday
    \/ \E days \in {-1, 1} : grid.selectedDate + days \in SlotDays /\ handleDateChange(days)
    \/ \E time \in SlotTimes :
            ~SlotInFlight(time, "GA") /\ toggleBlockTime(time, "GA")
    \/ \E o \in gridOps, ok \in BOOLEAN : storeDeleteRule(o, ok)
    \/ \E o \in gridOps : toggleAfterDelete(o)
    \/ \E o \in gridOps, ok \in BOOLEAN : storeInsertRule(o, ok)
    \/ \E o \in gridOps : toggleAfterInsert(o)

SpecSlots == InitSlots /\ [][NextSlots]_vars

(***************************************************************************)
(* SpecModalSlots: the page is rendered and its mount effect fetches; the  *)
(* admin toggles the GA slot of the snapshot hour in the grid, opens the   *)
(* calendar modal, also while a request is in flight, toggles the snapshot *)
(* date there and commits; the profile is loaded again, as an admin's or   *)
(* an agent's, when the modal is closed and nothing is in flight; the      *)
(* store serves every request.  The modal covers the grid, so no slot is   *)
(* toggled while it is open, and nothing is clicked in the modal during a  *)
(* commit.                                                                 *)
(***************************************************************************)
CommitInFlight == \E o \in gridOps : o.kind = "commit"

\* The first render of the page for an admin, lines 15-29: the mount effect
\* has sent the appointments select.
InitModalSlots ==
    /\ srvAppointments = {SCBooking(1)}
    /\ srvRules \in {{}, {HourRule}}
    /\ appointments = [c \in Clients |-> <<>>]
    /\ blockedRules = [c \in Clients |-> {}]
    /\ formData = [c \in Clients |-> EmptyForm]
    /\ errors = [c \in Clients |-> {}]
    /\ schema = [c \in Clients |-> DEFAULT_SCHEMA]
    /\ toast = [c \in Clients |-> Empty]
    /\ edit = [c \in Clients |-> NoEdit]
    /\ user = ProfilesLoaded
    /\ session = [p \in Pages |-> TRUE]
    /\ mounted = [p \in Pages |-> TRUE]
    /\ searchQuery = [c \in Clients |-> <<>>]
    /\ profileFetches = [p \in Pages |-> IF p = GridPage THEN 1 ELSE 0]
    /\ authCalls = NoAuthCalls
    /\ ops = [c \in Clients |-> {}]
    /\ nextId = 2
    /\ today = FormDay
    /\ tz = "UTC"
    /\ grid = GridFirstRender
    /\ gridOps = {GridOp(1, "fetch", "grid_appts_sent", <<>>, <<>>, <<>>)}
    /\ nextRuleId = 4

NextModalSlots ==
    \/ ~grid.isBlockModalOpen /\ ~SlotInFlight(SnapshotTime, "GA")
            /\ toggleBlockTime(SnapshotTime, "GA")
    \/ \E o \in gridOps : storeDeleteRule(o, TRUE)
    \/ \E o \in gridOps : toggleAfterDelete(o)
    \/ \E o \in gridOps : storeInsertRule(o, TRUE)
    \/ \E o \in gridOps : toggleAfterInsert(o)
    \/ ~CommitInFlight /\ openBlockModal
    \/ ~CommitInFlight /\ closeBlockModal
    \/ ~CommitInFlight /\ toggleDateBlockFromCalendar(FormDay)
    \/ ~CommitInFlight /\ saveBlockModal
    \/ \E o \in gridOps : storeDeleteRules(o, TRUE)
    \/ \E o \in gridOps : saveAfterDelete(o)
    \/ \E o \in gridOps : storeInsertRules(o, TRUE)
    \/ \E o \in gridOps : saveAfterInsert(o)
    \/ \E o \in gridOps : storeSelectAllRules(o, TRUE)
    \/ \E o \in gridOps : saveAfterSelect(o)
    \/ \E o \in gridOps : storeSelectAllAppointments(o, TRUE)
    \/ \E o \in gridOps : fetchDataAfterAppointments(o)
    \/ \E o \in gridOps : fetchDataAfterRules(o)
    \/ \E role \in {"Admin", "Sales Agent"} :
            gridOps = {} /\ ~grid.isBlockModalOpen /\ fetchProfileReturns(GridPage, role)
    \/ gridOps = {} /\ mountGrid
    \/ gridOps = {} /\ unmount(GridPage)
    \/ handleLogout(GridPage)
    \/ logout(GridPage)
    \/ updateUser(GridPage)
    \/ \E ok \in BOOLEAN :
            gridOps = {} /\ ~grid.isBlockModalOpen /\ updateUserReturns(GridPage, ok)
    \/ ~session[GridPage] /\ onAuthStateChange(GridPage, TRUE)

SpecModalSlots == InitModalSlots /\ [][NextModalSlots]_vars

(***************************************************************************)
(* SpecRules: the admin adds whole-day rules on the snapshot date in the   *)
(* calendar modal and removes rules they added, never a rule that was in   *)
(* the store at the start; the store serves every request.  The agent's    *)
(* page 2 was loaded at the start and is left alone; page 1 is loaded      *)
(* again at any moment.                                                    *)
(***************************************************************************)
InitRules ==
    /\ srvAppointments = {SCBooking(1)}
    /\ srvRules \in {{}, {GlobalDayRule, HourRule}, {GAWholeDayRule, OtherDayRule}}
    /\ appointments = [c \in Clients |-> NewestFirst(srvAppointments)]
    /\ blockedRules = [c \in Clients |-> srvRules]
    /\ formData = [c \in Clients |-> EmptyForm]
    /\ errors = [c \in Clients |-> {}]
    /\ schema = [c \in Clients |-> DEFAULT_SCHEMA]
    /\ toast = [c \in Clients |-> Empty]
    /\ edit = [c \in Clients |-> NoEdit]
    /\ user = ProfilesLoaded
    /\ PagesShown
    /\ ops = [c \in Clients |-> {}]
    /\ nextId = 2
    /\ today = OtherDay
    /\ tz = "UTC"
    /\ \E rows \in RowOrders(srvRules) :
            grid = [appointments |-> <<>>, blockedRules |-> rows, selectedDate |-> today,
                    isBlockModalOpen |-> FALSE, tempBlockedRules |-> <<>>,
                    blockStateFilter |-> "ALL"]
    /\ gridOps = {}
    /\ nextRuleId = 4

\* The rules the store held at the start are those page 2 still holds.
AddedByAdmin(r) == r \notin blockedRules[2]

\* The toggle adds a rule, or takes away only rules the admin added.
TogglesOwnRule ==
    LET targetState == IF grid.blockStateFilter = "ALL" THEN Empty
                       ELSE grid.blockStateFilter
    IN  \/ ~isDayBlocked(SnapshotDate, targetState, grid.tempBlockedRules)
        \/ \A r \in Range(grid.tempBlockedRules) :
                (r.date = SnapshotDate /\ r.time = Empty /\ r.state = targetState)
                    => AddedByAdmin(r)

\* The agent reloads the page again once the requests of the page left before
\* have ended.
NextRules ==
    \/ gridOps = {} /\ openBlockModal
    \/ \E f \in {"ALL", "GA"} : gridOps = {} /\ setBlockStateFilter(f)
    \/ gridOps = {} /\ TogglesOwnRule /\ toggleDateBlockFromCalendar(FormDay)
    \/ gridOps = {} /\ saveBlockModal
    \/ \E o \in gridOps : storeDeleteRules(o, TRUE)
    \/ \E o \in gridOps : saveAfterDelete(o)
    \/ \E o \in gridOps : storeInsertRules(o, TRUE)
    \/ \E o \in gridOps : saveAfterInsert(o)
    \/ \E o \in gridOps : storeSelectAllRules(o, TRUE)
    \/ \E o \in gridOps : saveAfterSelect(o)
    \/ (\A o \in ops[1] : ~o.orphan) /\ mount(1)
    \/ \E o \in ops[1] : storeSelectAppointments(1, o, TRUE)
    \/ \E o \in ops[1] : fetchAppointmentsReturns(1, o)
    \/ \E o \in ops[1] : storeSelectRules(1, o, TRUE)
    \/ \E o \in ops[1] : fetchRulesReturns(1, o)

SpecRules == InitRules /\ [][NextRules]_vars

(***************************************************************************)
(* SpecDeletes: one page holding an SC and an AL booking; the agent        *)
(* deletes records, also while an earlier delete is in flight; the store   *)
(* may fail a delete.                                                      *)
(***************************************************************************)
InitDeletes ==
    /\ srvAppointments = {SCBooking(1), ALBooking(2)}
    /\ srvRules = {}
    /\ appointments = [c \in Clients |-> IF c = 1 THEN NewestFirst(srvAppointments) ELSE <<>>]
    /\ blockedRules = [c \in Clients |-> {}]
    /\ formData = [c \in Clients |-> EmptyForm]
    /\ errors = [c \in Clients |-> {}]
    /\ schema = [c \in Clients |-> DEFAULT_SCHEMA]
    /\ toast = [c \in Clients |-> Empty]
    /\ edit = [c \in Clients |-> NoEdit]
    /\ user = AgentsLoaded
    /\ PagesShown
    /\ ops = [c \in Clients |-> {}]
    /\ nextId = MaxId
    /\ today = 88
    /\ tz = "UTC"
    /\ InitGridIdle

NextDeletes ==
    \/ \E id \in 1..MaxId : handleDelete(1, id)
    \/ \E o \in ops[1], ok \in BOOLEAN : storeDelete(1, o, ok)
    \/ \E o \in ops[1] : deleteReturns(1, o)
    \/ \E o \in ops[1] : delayElapsed(1, o)
    \/ \E o \in ops[1] : storeSelectAppointments(1, o, TRUE)
    \/ \E o \in ops[1] : fetchAppointmentsReturns(1, o)
    \/ \E o \in ops[1] : storeSelectRules(1, o, TRUE)
    \/ \E o \in ops[1] : fetchRulesReturns(1, o)

SpecDeletes == InitDeletes /\ [][NextDeletes]_vars

(***************************************************************************)
(* SpecStale: the agent fills the form while the mount fetch is in flight, *)
(* or before the profile is loaded; the page is left and loaded again at   *)
(* any moment.  The store holds a global whole-day rule on the snapshot    *)
(* date or none.                                                           *)
(***************************************************************************)
\* No profile was loaded: the profiles select failed or returned no row.
NoProfiles == [p \in Pages |-> Empty]

InitStale ==
    /\ appointments = [c \in Clients |-> <<>>]
    /\ blockedRules = [c \in Clients |-> {}]
    /\ formData = [c \in Clients |-> EmptyForm]
    /\ errors = [c \in Clients |-> {}]
    /\ schema = [c \in Clients |-> DEFAULT_SCHEMA]
    /\ toast = [c \in Clients |-> Empty]
    /\ edit = [c \in Clients |-> NoEdit]
    /\ user \in {AgentsLoaded, NoProfiles}
    /\ session = [p \in Pages |-> TRUE]
    /\ mounted = [p \in Pages |-> TRUE]
    /\ searchQuery = [c \in Clients |-> <<>>]
    /\ profileFetches = [p \in Pages |-> IF p = 1 /\ user[p] = Empty THEN 1 ELSE 0]
    /\ authCalls = NoAuthCalls
    /\ ops = [c \in Clients |-> IF c = 1 /\ user[c] # Empty
                                    THEN {NewOp(1, "fetch", "appts_sent")} ELSE {}]
    /\ srvAppointments = {}
    /\ srvRules \in {{}, {GlobalDayRule}}
    /\ nextId = 2
    /\ today = 88
    /\ tz = "UTC"
    /\ InitGridIdle

NextStale ==
    \/ NextForm
    \/ mount(1)
    \/ unmount(1)
    \/ onAuthStateChange(1, FALSE)
    \/ ~session[1] /\ onAuthStateChange(1, TRUE)
    \/ \E role \in {"Sales Agent", Empty} : fetchProfileReturns(1, role)

SpecStale == InitStale /\ [][NextStale]_vars

(***************************************************************************)
(* SpecEdit: one page holding an SC and an AL booking of the snapshot      *)
(* slot; the agent edits the text of records, copies records again and     *)
(* deletes records, one request at a time; the store may fail a delete.    *)
(***************************************************************************)
\* The texts typed into the textarea, as sequences of <<label, value>> lines.
EditedTexts == {<<>>, <<<<"notes", GateCodeRocket>>>>}

InitEdit ==
    /\ srvAppointments = {SCBooking(1), ALBooking(2)}
    /\ srvRules = {}
    /\ appointments = [c \in Clients |-> IF c = 1 THEN NewestFirst(srvAppointments) ELSE <<>>]
    /\ blockedRules = [c \in Clients |-> {}]
    /\ formData = [c \in Clients |-> EmptyForm]
    /\ errors = [c \in Clients |-> {}]
    /\ schema = [c \in Clients |-> DEFAULT_SCHEMA]
    /\ toast = [c \in Clients |-> Empty]
    /\ edit = [c \in Clients |-> NoEdit]
    /\ user = AgentsLoaded
    /\ PagesShown
    /\ ops = [c \in Clients |-> {}]
    /\ nextId = MaxId
    /\ today = 88
    /\ tz = "UTC"
    /\ InitGridIdle

\* Texts typed into the search box: none, JOHN and zz.
SearchTexts == {<<>>, <<74, 79, 72, 78>>, <<122, 122>>}

NextEdit ==
    \/ \E text \in SearchTexts : setSearchQuery(1, text)
    \/ \E i \in 1..MaxId : openEditModal(1, i)
    \/ \E v \in EditedTexts : onChangeEditText(1, v)
    \/ closeEditModal(1)
    \/ handleUpdateRecord(1)
    \/ ops[1] = {} /\ \E i \in 1..MaxId : copyToClipboard(1, i)
    \/ \E o \in ops[1], ok \in BOOLEAN : copyReturns(1, o, ok)
    \/ ops[1] = {} /\ \E id \in 1..MaxId : handleDelete(1, id)
    \/ \E o \in ops[1], ok \in BOOLEAN : storeDelete(1, o, ok)
    \/ \E o \in ops[1] : deleteReturns(1, o)
    \/ \E o \in ops[1] : delayElapsed(1, o)
    \/ \E o \in ops[1] : storeSelectAppointments(1, o, TRUE)
    \/ \E o \in ops[1] : fetchAppointmentsReturns(1, o)
    \/ \E o \in ops[1] : storeSelectRules(1, o, TRUE)
    \/ \E o \in ops[1] : fetchRulesReturns(1, o)

SpecEdit == InitEdit /\ [][NextEdit]_vars

(***************************************************************************)
(* Claims about the engine, on client 1: C1 and C2 under SpecEngine, C8,   *)
(* C9 and C10 under SpecCalendar.                                          *)
(***************************************************************************)
DateStrings == {FormatDate(d) : d \in CalendarDays}

\* The number of local appointments of a slot, counted without the engine.
CountAt(c, dateStr, time, state) ==
    Cardinality({i \in DOMAIN appointments[c] :
                    /\ appointments[c][i].formData.appointmentDate = dateStr
                    /\ appointments[c][i].formData.appointmentTime = time
                    /\ appointments[c][i].formData.state = state})

HasSlotRule(c, dateStr, time, state) ==
    \E r \in blockedRules[c] :
        r.date = dateStr /\ r.time = time /\ r.state \in {Empty, state}

HasDayRule(c, dateStr, state) ==
    \E r \in blockedRules[c] :
        r.date = dateStr /\ r.time = Empty /\ r.state \in {Empty, state}

\* C1: for every date, time slot and region, isSlotUnavailable is true if and
\* only if the region is empty or not a key of STATE_CONFIG, or the slot's
\* local appointments number at least the region's capacity, or some block
\* rule has the same date and time and a state that is absent or the region.
C1_SlotUnavailableIff ==
    \A d \in DateStrings, t \in Hours, r \in Regions :
        isSlotUnavailable(1, d, t, r) <=>
            \/ r = Empty
            \/ r \notin DOMAIN STATE_CONFIG
            \/ CountAt(1, d, t, r) >= STATE_CONFIG[r].capacity
            \/ HasSlotRule(1, d, t, r)

\* C1's case: a slot rule scoped to GA, and nothing else on the slot, makes
\* the slot unavailable for GA and leaves it available for TN, under which
\* state the date was then picked in the calendar.
C1_Witness ==
    /\ \E r \in blockedRules[1] :
            r.date = SnapshotDate /\ r.time = SnapshotTime /\ r.state = "GA"
    /\ ~HasSlotRule(1, SnapshotDate, SnapshotTime, "TN")
    /\ isSlotUnavailable(1, SnapshotDate, SnapshotTime, "GA")
    /\ ~isSlotUnavailable(1, SnapshotDate, SnapshotTime, "TN")
    /\ formData[1].state = "TN"
    /\ formData[1].appointmentDate = SnapshotDate
    /\ formData[1].appointmentTime = SnapshotTime

\* C2 (as claimed): whenever a whole-day rule exists for a date whose state is
\* absent or equal to a region, isSlotUnavailable is true for that date and
\* region at every operating hour.
C2_WholeDayRuleBlocksEverySlot ==
    \A r \in StateOptions, d \in DateStrings :
        HasDayRule(1, d, r) => \A t \in Hours : isSlotUnavailable(1, d, t, r)

\* C8: isDateBlocked is true for every date when the selected region is
\* absent, empty or not a key of STATE_CONFIG, whatever the appointments and
\* the block rules are.
C8_UnknownRegionBlocked ==
    \A d \in CalendarDays, r \in Regions \ DOMAIN STATE_CONFIG :
        /\ DateBlockedFor(1, d, r)
        /\ formData[1].state = r => isDateBlocked(1, d)

\* C8's case: a coming Monday with no rule and no booking, open for GA, is
\* blocked with no state selected (the state select was set back to empty)
\* and for the unrecognised code.
C8_Witness ==
    /\ blockedRules[1] = {}
    /\ appointments[1] = <<>>
    /\ formData[1].state = Empty
    /\ isDateBlocked(1, 91)
    /\ DateBlockedFor(1, 91, "FL")
    /\ ~DateBlockedFor(1, 91, "GA")

\* C9 (as claimed): for every recognised region, every date strictly before
\* today is blocked.
C9_PastDatesBlocked ==
    \A d \in CalendarDays, r \in StateOptions :
        d < today => DateBlockedFor(1, d, r)

\* C10 (as claimed): for every recognised region, today's date is blocked.
C10_TodayBlocked ==
    \A r \in StateOptions : DateBlockedFor(1, today, r)

(***************************************************************************)
(* Claims about saving, on client 1, under SpecForm.                       *)
(***************************************************************************)
\* The slot of the form is chosen and unavailable in the local snapshot.
ChosenSlotUnavailable(c) ==
    /\ SlotChosen(c)
    /\ isSlotUnavailable(c, formData[c].appointmentDate, formData[c].appointmentTime,
                         formData[c].state)

\* C5: when state, date and time are set in the form and isSlotUnavailable is
\* true for them against the local snapshot, no step sends an insert to the
\* store, and handleSaveAndCopy leaves the local appointment list, the form
\* data, the requests in flight and the store unchanged.
C5_UnavailableSlotNotWritten ==
    [][ChosenSlotUnavailable(1) =>
            /\ InsertsSent(ops'[1]) \subseteq InsertsSent(ops[1])
            /\ handleSaveAndCopy(1) =>
                    /\ appointments' = appointments
                    /\ formData' = formData
                    /\ ops' = ops
                    /\ srvAppointments' = srvAppointments]_vars

\* C5's case: the slot was picked while the list was still empty, the fetch
\* then delivered the booking that fills it, and handleSaveAndCopy answered
\* with the message; the form is as it was and nothing was sent or stored.
C5_Witness ==
    /\ toast[1] = "This slot is unavailable"
    /\ formData[1] = FilledForm("SC", SnapshotDate, SnapshotTime)
    /\ appointments[1] = <<SCBooking(1)>>
    /\ ChosenSlotUnavailable(1)
    /\ ops[1] = {}
    /\ srvAppointments = {SCBooking(1)}

\* C6 (as claimed): whenever handleSaveAndCopy runs with at least one visible
\* required field empty, no store call is made and afterwards the errors map
\* flags exactly the visible required fields that are empty, also when the
\* chosen slot is unavailable.
C6_MissingFieldsFlagged ==
    [][(handleSaveAndCopy(1) /\ MissingRequired(1) # {}) =>
            /\ ops' = ops
            /\ srvAppointments' = srvAppointments
            /\ errors'[1] = MissingRequired(1)]_vars

\* C7 (as claimed): every appointment record created through
\* handleSaveAndCopy, after any form edits and schema edits (reorder, delete
\* field, reset), has a non-empty appointmentDate, an appointmentTime that is
\* one of OPERATING_HOURS and a state that is a key of STATE_CONFIG.
C7_SavedRecordsCarrySlot ==
    \A r \in srvAppointments :
        /\ r.formData.appointmentDate # Empty
        /\ r.formData.appointmentTime \in Hours
        /\ r.formData.state \in DOMAIN STATE_CONFIG

(***************************************************************************)
(* Claims about capacity: C3 under SpecRace, C4 under SpecSingle.          *)
(***************************************************************************)
\* The number of the store's appointments of a slot.
StoredAt(dateStr, time, state) ==
    Cardinality({r \in srvAppointments :
                    /\ r.formData.appointmentDate = dateStr
                    /\ r.formData.appointmentTime = time
                    /\ r.formData.state = state})

\* The capacity the list captured by a save left for the save's own slot.
RemainingSeenBy(o) ==
    STATE_CONFIG[o.formData.state].capacity -
        Cardinality({i \in DOMAIN o.closure :
                        /\ o.closure[i].formData.appointmentDate = o.formData.appointmentDate
                        /\ o.closure[i].formData.appointmentTime = o.formData.appointmentTime
                        /\ o.closure[i].formData.state = o.formData.state})

\* C3: every insert a client has sent passed the pre-save check against the
\* snapshot that client held, which showed remainingCapacity > 0 for the
\* slot; the store applies each of them, so the count of a slot in the store
\* can exceed the capacity (the witness).
C3_EveryInsertPassedItsSnapshot ==
    \A c \in Clients : \A o \in ops[c] :
        o.kind = "save" =>
            /\ o.formData.state \in DOMAIN STATE_CONFIG
            /\ RemainingSeenBy(o) > 0

\* C3's case: the two clients' inserts for the same SC slot, each sent from a
\* snapshot that showed the slot free, have both been applied, and the store
\* holds more appointments of the slot than SC's capacity.
C3_Witness ==
    /\ \E o1 \in ops[1], o2 \in ops[2] :
            /\ o1.kind = "save" /\ o1.phase = "insert_done" /\ o1.ok
            /\ o2.kind = "save" /\ o2.phase = "insert_done" /\ o2.ok
            /\ o1.formData = FilledForm("SC", SnapshotDate, SnapshotTime)
            /\ o2.formData = o1.formData
            /\ RemainingSeenBy(o1) > 0
            /\ RemainingSeenBy(o2) > 0
            /\ {r.id : r \in srvAppointments} = {o1.id, o2.id}
    /\ StoredAt(SnapshotDate, SnapshotTime, "SC") > STATE_CONFIG["SC"].capacity

\* C4: with a single client whose snapshot initially equals the store and has
\* no slot over capacity, and whose saves and deletes each complete before
\* the next starts, remainingCapacity is never negative for any slot of any
\* recognised region, and no slot of the store is over capacity.
C4_RemainingCapacityNotNegative ==
    \A d \in DateStrings, t \in Hours, r \in StateOptions :
        /\ remainingCapacity(1, d, t, r) >= 0
        /\ StoredAt(d, t, r) <= STATE_CONFIG[r].capacity

\* C4's case: the client's own save has filled the AL slot on top of the
\* booking that was there, its later attempt on the slot was refused, and
\* the remaining capacity is exactly 0 in the list, which equals the store.
C4_Witness ==
    /\ ops[1] = {}
    /\ Len(appointments[1]) = 2
    /\ Range(appointments[1]) = srvAppointments
    /\ ALBooking(1) \in srvAppointments
    /\ remainingCapacity(1, SnapshotDate, SnapshotTime, "AL") = 0
    /\ toast[1] = "This slot is unavailable"

(***************************************************************************)
(* Claims about the engine, continued: C11 and C12 under SpecCalendar,     *)
(* C13 under SpecDay, C15 under SpecEngine.                                *)
(***************************************************************************)
\* C11: for every recognised region, every date whose weekday is not among
\* the region's workdays is blocked, whatever the bookings and rules are:
\* Saturdays and Sundays for AL and SC, Sundays for GA and TN.
C11_NonWorkdaysBlocked ==
    \A d \in CalendarDays, r \in StateOptions :
        /\ GetDay(d) \notin STATE_CONFIG[r].workdays => DateBlockedFor(1, d, r)
        /\ (GetDay(d) \in {0, 6} /\ r \in {"AL", "SC"}) => DateBlockedFor(1, d, r)
        /\ (GetDay(d) = 0 /\ r \in {"GA", "TN"}) => DateBlockedFor(1, d, r)
        /\ formData[1].state = r /\ GetDay(d) \notin STATE_CONFIG[r].workdays
                => isDateBlocked(1, d)

\* C11's case: with SC selected in the form and nothing booked or ruled, the
\* coming Saturday and Sunday are blocked in the calendar; the Saturday is
\* open for GA and the Sunday is not.
C11_Witness ==
    /\ blockedRules[1] = {}
    /\ appointments[1] = <<>>
    /\ today = 88
    /\ formData[1].state = "SC"
    /\ isDateBlocked(1, 89)
    /\ isDateBlocked(1, 90)
    /\ ~isDateBlocked(1, 91)
    /\ ~DateBlockedFor(1, 89, "GA")
    /\ DateBlockedFor(1, 90, "GA")

\* A date that lead time, workdays and holidays leave open for a region.
OpenByCalendar(d, r) ==
    /\ d >= today
    /\ GetDay(d) \in STATE_CONFIG[r].workdays
    /\ FormatDate(d) \notin HOLIDAY_BLOCKS

\* C12: a whole-day rule on a date whose state is absent or equal to the
\* region blocks the date for the region, even when every slot has free
\* capacity; a global whole-day rule blocks it for every region; whole-day
\* rules scoped to other regions do not by themselves block it.
C12_WholeDayRuleBlocksDate ==
    \A d \in CalendarDays, r \in StateOptions :
        /\ HasDayRule(1, FormatDate(d), r) => DateBlockedFor(1, d, r)
        /\ (\E x \in blockedRules[1] :
                x.date = FormatDate(d) /\ x.time = Empty /\ x.state = Empty)
                => \A q \in StateOptions : DateBlockedFor(1, d, q)
        /\ (/\ OpenByCalendar(d, r)
            /\ appointments[1] = <<>>
            /\ \A x \in blockedRules[1] : x.time = Empty /\ x.state \notin {Empty, r})
                => ~DateBlockedFor(1, d, r)

\* C12's case: a single global whole-day rule on the coming Monday, every
\* slot of which is free, blocks the Monday in the calendar with AL selected
\* and for GA as well.
C12_Witness ==
    /\ blockedRules[1] = {Rule(104, SnapshotDate, Empty, Empty)}
    /\ appointments[1] = <<>>
    /\ \A t \in Hours : ~isSlotUnavailable(1, SnapshotDate, t, "AL")
    /\ formData[1].state = "AL"
    /\ isDateBlocked(1, FormDay)
    /\ DateBlockedFor(1, FormDay, "GA")

\* C13: for a recognised region, a date that is not before today, is a
\* workday, is not a holiday and has no matching whole-day rule is blocked
\* if and only if every operating hour is unavailable.
C13_FullDayIffEverySlotUnavailable ==
    \A d \in CalendarDays, r \in StateOptions :
        (OpenByCalendar(d, r) /\ ~HasDayRule(1, FormatDate(d), r)) =>
            (DateBlockedFor(1, d, r) <=>
                \A t \in Hours : isSlotUnavailable(1, FormatDate(d), t, r))

\* C13's case: SC is selected, every operating hour of the Monday is taken
\* by a booking or a slot rule, both kinds present, no whole-day rule
\* matches, and the calendar blocks the Monday.
C13_Witness ==
    /\ formData[1].state = "SC"
    /\ appointments[1] # <<>>
    /\ blockedRules[1] # {}
    /\ ~HasDayRule(1, SnapshotDate, "SC")
    /\ \A t \in Hours : isSlotUnavailable(1, SnapshotDate, t, "SC")
    /\ Len(appointments[1]) + Cardinality(blockedRules[1]) = Len(OPERATING_HOURS)
    /\ isDateBlocked(1, FormDay)

\* C15: for a recognised region and a slot with no matching slot rule,
\* isSlotUnavailable is true exactly when remainingCapacity, the capacity
\* minus the count of matching appointments, is at most 0.
C15_UnavailableIffNoneRemaining ==
    \A d \in DateStrings, t \in Hours, r \in StateOptions :
        /\ remainingCapacity(1, d, t, r) = STATE_CONFIG[r].capacity - CountAt(1, d, t, r)
        /\ ~HasSlotRule(1, d, t, r) =>
                (isSlotUnavailable(1, d, t, r) <=> remainingCapacity(1, d, t, r) <= 0)

\* C15's case: SC (capacity 1) with one booking on the slot and no rule:
\* none remains and the slot is unavailable in the time select of the chosen
\* date, while the 9:00 AM slot, with no booking, has 1 remaining and was
\* picked.
C15_Witness ==
    /\ appointments[1] = BookingList("SC", 1)
    /\ blockedRules[1] = {}
    /\ formData[1].state = "SC"
    /\ formData[1].appointmentDate = SnapshotDate
    /\ formData[1].appointmentTime = "9:00 AM"
    /\ remainingCapacity(1, SnapshotDate, SnapshotTime, "SC") = 0
    /\ isSlotUnavailable(1, SnapshotDate, SnapshotTime, "SC")
    /\ remainingCapacity(1, SnapshotDate, "9:00 AM", "SC") = 1
    /\ ~isSlotUnavailable(1, SnapshotDate, "9:00 AM", "SC")

(***************************************************************************)
(* Claims about handleDelete: C16 under SpecPage, C17 under SpecSingle.    *)
(***************************************************************************)
\* Every id of the list occurs in it exactly once.
EachIdOnce(list) ==
    \A i, j \in DOMAIN list : list[i].id = list[j].id => i = j

\* C16 (as claimed): when the remote delete of handleDelete fails, then once
\* the handler finishes the local appointment list contains the same set of
\* records, each id exactly once, as before handleDelete was called.
C16_FailedDeleteRestoresList ==
    [][\A o \in ops[1] :
            (deleteReturns(1, o) /\ ~o.ok) =>
                /\ Range(appointments'[1]) = Range(o.closure)
                /\ EachIdOnce(appointments'[1])]_vars

\* The place of a phase in the course of handleDelete.
PhaseRank(ph) ==
    CASE ph = "delete_sent" -> 1
      [] ph = "delete_done" -> 2
      [] ph = "delay" -> 3
      [] ph = "appts_sent" -> 4
      [] ph = "appts_done" -> 5
      [] ph = "rules_sent" -> 6
      [] ph = "rules_done" -> 7

FilterScope == IF grid.blockStateFilter = "ALL" THEN Empty ELSE grid.blockStateFilter

\* The date is shown as blocked under the active filter: a whole-day rule of
\* the working copy on it is global or, under a state filter, for that state.
ShownBlocked(dStr) ==
    \E r \in Range(grid.tempBlockedRules) :
        /\ r.date = dStr /\ r.time = Empty
        /\ (r.state = Empty \/ r.state = FilterScope)

InFilterScope(r, dStr) == r.date = dStr /\ r.time = Empty /\ r.state = FilterScope

\* C20: a toggle on a date shown as blocked removes from the working copy
\* exactly the whole-day rules on that date whose scope equals the active
\* filter (no state under ALL, state X under filter X), keeps every other
\* rule in place, and adds no rule.
C20_UnblockRemovesOnlyFilterScope ==
    [][(toggleDateBlockFromCalendar(FormDay) /\ ShownBlocked(SnapshotDate)) =>
            grid'.tempBlockedRules =
                SelectSeq(grid.tempBlockedRules,
                          LAMBDA r : ~InFilterScope(r, SnapshotDate))]_vars

\* The GA rule of the committed set was removed from the working copy under
\* the GA filter, while a global rule on the same date and the rule on the
\* other date stayed.
C20_Witness ==
    /\ grid.isBlockModalOpen
    /\ grid.blockStateFilter = "GA"
    /\ GAWholeDayRule \in Range(grid.blockedRules)
    /\ GAWholeDayRule \notin Range(grid.tempBlockedRules)
    /\ OtherDayRule \in Range(grid.tempBlockedRules)
    /\ \E r \in Range(grid.tempBlockedRules) :
            r.date = SnapshotDate /\ r.time = Empty /\ r.state = Empty

\* The activation o ends with this step.
CommitEnds(o) == o \in gridOps /\ \A o2 \in gridOps' : o2.seq # o.seq

\* C18: when the batch delete or the batch insert of a commit failed, the
\* commit ends with the local committed rules as they were before it.
C18_FailedBatchLeavesCommittedRules ==
    [][\A o \in gridOps :
            (CommitEnds(o) /\ (~o.deleteOk \/ ~o.insertOk)) =>
                grid'.blockedRules = grid.blockedRules]_vars

\* What a rule says, without its identifier.
RuleContent(r) == [date |-> r.date, time |-> r.time, state |-> r.state]

\* The committed rules missing from the working copy, and the rules of the
\* working copy missing from the committed set (compared by identifier).
CommittedOnly == {r \in Range(grid.blockedRules) : r.id \notin RuleIds(grid.tempBlockedRules)}

WorkingOnly ==
    {i \in DOMAIN grid.tempBlockedRules :
        grid.tempBlockedRules[i].id \notin RuleIds(grid.blockedRules)}

\* C19: in a commit that the store serves without error, the batch delete
\* removes from the store exactly the committed rules missing from the
\* working copy, the batch insert adds exactly the rules of the working copy
\* missing from the committed set, and when the commit has ended the local
\* committed rules are the store's rules, each once, none under a temporary
\* identifier.
C19_CommitAppliesTheDifference ==
    [][/\ \A o \in gridOps :
            storeDeleteRules(o, TRUE) => srvRules' = srvRules \ CommittedOnly
       /\ \A o \in gridOps :
            storeInsertRules(o, TRUE) =>
                /\ srvRules \subseteq srvRules'
                /\ Cardinality(srvRules' \ srvRules) = Cardinality(WorkingOnly)
                /\ {RuleContent(r) : r \in srvRules' \ srvRules} =
                        {RuleContent(grid.tempBlockedRules[i]) : i \in WorkingOnly}
       /\ (saveBlockModal \/ \E o \in gridOps : CommitEnds(o)) /\ gridOps' = {} =>
                /\ Range(grid'.blockedRules) = srvRules'
                /\ Len(grid'.blockedRules) = Cardinality(srvRules')
                /\ RuleIds(grid'.blockedRules) \cap TempIds = {}]_vars

\* A commit has deleted the global whole-day rule and inserted a GA rule,
\* which the store numbered 4; the modal is closed and nothing is in flight.
C19_Witness ==
    /\ gridOps = {}
    /\ ~grid.isBlockModalOpen
    /\ srvRules = {HourRule, Rule(4, SnapshotDate, Empty, "GA")}
    /\ Range(grid.blockedRules) = srvRules

(***************************************************************************)
(* Claim about the rule set the agent's engine reads, under SpecRules.     *)
(***************************************************************************)
\* C14: once the whole-day rules that were added are removed again (the
\* loaded page 1 holds no rule the admin added), with the appointments, the
\* other rules and today as before, isDateBlocked answers on page 1 as it
\* did before the rules were added, that is as on page 2, for every date
\* and region.
C14_AddThenRemoveRestoresAnswer ==
    (ops[1] = {} /\ \A r \in blockedRules[1] : ~AddedByAdmin(r)) =>
        \A d \in CalendarDays, r \in Regions :
            DateBlockedFor(1, d, r) = DateBlockedFor(2, d, r)

\* The store numbered a rule 4 and holds it no more; page 1, loaded after
\* that, holds the GA rule and the rule on the other day, as page 2 does.
C14_Witness ==
    /\ nextRuleId > 4
    /\ gridOps = {}
    /\ ops[1] = {}
    /\ srvRules = {GAWholeDayRule, OtherDayRule}
    /\ blockedRules[1] = srvRules
    /\ blockedRules[2] = srvRules
    /\ DateBlockedFor(1, FormDay, "GA")
    /\ ~DateBlockedFor(1, FormDay, "TN")

(***************************************************************************)
(* Further claims about the calendar modal, under SpecGrid.                *)
(***************************************************************************)
\* The modal is open and the working copy has room for one more rule.
CanToggle ==
    /\ grid.isBlockModalOpen
    /\ \E id \in TempIds : id \notin RuleIds(grid.tempBlockedRules)

\* The toggle of the snapshot date appends one whole-day rule on that date,
\* of the active filter's scope, under an identifier the working copy did
\* not hold.
AddsOneRuleInScope ==
    \E r \in Range(ToggledRules(FormDay)) :
        /\ ToggledRules(FormDay) = Append(grid.tempBlockedRules, r)
        /\ r.id \notin RuleIds(grid.tempBlockedRules)
        /\ r.date = SnapshotDate /\ r.time = Empty /\ r.state = FilterScope

\* C21 as stated: a toggle on a date with no whole-day rule of the filter's
\* scope in the working copy adds one whole-day rule of that scope, whatever
\* rules of another scope the date has.
C21_AddsWhenNoRuleOfFilterScope ==
    (/\ CanToggle
     /\ \A r \in Range(grid.tempBlockedRules) : ~InFilterScope(r, SnapshotDate))
        => AddsOneRuleInScope

\* C21, amended: a toggle on a date the working copy does not show as
\* blocked under the filter (no global whole-day rule and none of the
\* filter's state) adds one whole-day rule of the filter's scope; a rule of
\* another state on the date does not prevent it.
C21_AddsWhenNotShownBlocked ==
    (CanToggle /\ ~ShownBlocked(SnapshotDate)) => AddsOneRuleInScope

\* Under ALL a global rule was added, in last place, to a working copy that
\* holds the GA rule of the same date.
C21_Witness ==
    /\ grid.isBlockModalOpen
    /\ grid.blockStateFilter = "ALL"
    /\ GAWholeDayRule \in Range(grid.tempBlockedRules)
    /\ Len(grid.tempBlockedRules) = Len(grid.blockedRules) + 1
    /\ LET r == grid.tempBlockedRules[Len(grid.tempBlockedRules)]
       IN  r.id \in TempIds /\ r.date = SnapshotDate /\ r.time = Empty /\ r.state = Empty

\* The whole-day rules of a list on the snapshot date, and what they say.
WholeDayAt(rules) == {i \in DOMAIN rules : rules[i].date = SnapshotDate /\ rules[i].time = Empty}

SameForDate(rules1, rules2) ==
    /\ Cardinality(WholeDayAt(rules1)) = Cardinality(WholeDayAt(rules2))
    /\ {RuleContent(rules1[i]) : i \in WholeDayAt(rules1)} =
            {RuleContent(rules2[i]) : i \in WholeDayAt(rules2)}

\* C22: when the working copy says for the snapshot date what the committed
\* set says (as after two toggles of the date under one filter), the commit
\* sends neither a delete nor an insert of a whole-day rule of that date.
C22_NoDiffForDateToggledTwice ==
    [][(saveBlockModal /\ SameForDate(grid.tempBlockedRules, grid.blockedRules)) =>
            \A o \in gridOps' \ gridOps :
                WholeDayAt(o.added) = {} /\ WholeDayAt(o.removed) = {}]_vars

(***************************************************************************)
(* Claim about the edit modal, under SpecEdit.                             *)
(***************************************************************************)
\* C23: handleUpdateRecord keeps the length of the list and every record's
\* id, createdAt and formData, leaves the records of other ids as they were, gives the
\* record of the edited id the text of the textarea (whatever its formData
\* would generate), and so leaves every isSlotUnavailable and isDateBlocked
\* answer as it was.
C23_UpdateChangesOnlySummary ==
    [][handleUpdateRecord(1) =>
        /\ Len(appointments'[1]) = Len(appointments[1])
        /\ \A i \in DOMAIN appointments[1] :
            /\ appointments'[1][i].id = appointments[1][i].id
            /\ appointments'[1][i].createdAt = appointments[1][i].createdAt
            /\ appointments'[1][i].formData = appointments[1][i].formData
            /\ appointments'[1][i].clipboardSummary =
                    IF appointments[1][i].id = edit[1].editingRecord[1].id
                    THEN edit[1].editingRecord[1].clipboardSummary
                    ELSE appointments[1][i].clipboardSummary
        /\ \A d \in CalendarDays, r \in Regions :
            /\ DateBlockedFor(1, d, r)' = DateBlockedFor(1, d, r)
            /\ \A t \in Hours :
                isSlotUnavailable(1, FormatDate(d), t, r)' =
                    isSlotUnavailable(1, FormatDate(d), t, r)]_vars

\* The AL booking (id 2) carries the typed text, which is not the text its
\* formData generates; the SC booking is as saved.
C23_Witness ==
    /\ toast[1] = "Record updated"
    /\ ~edit[1].isEditModalOpen
    /\ Len(appointments[1]) = 2
    /\ appointments[1][1].id = 2
    /\ appointments[1][1].formData = ALBooking(2).formData
    /\ appointments[1][1].clipboardSummary \in EditedTexts
    /\ appointments[1][2] = SCBooking(1)

(***************************************************************************)
(* Claim about the form's state, under SpecDates.                          *)
(***************************************************************************)
\* A time is chosen only with a date and a state of STATE_CONFIG.
TimeHasDateAndState(form) ==
    form.appointmentTime # Empty =>
        form.appointmentDate # Empty /\ form.state \in DOMAIN STATE_CONFIG

\* C24: every step that changes the state leaves date and time empty, every
\* selectDate, of a new date or of the date already chosen, and every other
\* step that changes the date leaves the time empty, and in every form state
\* a chosen time comes with a chosen date and a recognised state.
C24_TimeChosenUnderDateAndState ==
    [][/\ formData'[1].state # formData[1].state =>
            formData'[1].appointmentDate = Empty /\ formData'[1].appointmentTime = Empty
       /\ formData'[1].appointmentDate # formData[1].appointmentDate =>
            formData'[1].appointmentTime = Empty
       /\ (\E d \in CalendarDays : selectDate(1, d)) =>
            formData'[1].appointmentTime = Empty
       /\ TimeHasDateAndState(formData[1]) /\ TimeHasDateAndState(formData'[1])]_vars

\* The form holds SC, the snapshot date and a time.
C24_Witness ==
    /\ formData[1].state = "SC"
    /\ formData[1].appointmentDate = SnapshotDate
    /\ formData[1].appointmentTime \in Hours

(***************************************************************************)
(* Claim about the date of a written appointment, under SpecStale.         *)
(***************************************************************************)
DayOf(dateStr) == CHOOSE d \in CalendarDays : FormatDate(d) = dateStr

\* C25: whenever handleSaveAndCopy sends an insert, isDateBlocked reports
\* the form's date as not blocked, on the page's appointments, rules and
\* today at that moment.
C25_WrittenDateNotBlocked ==
    [][(handleSaveAndCopy(1) /\ InsertsSent(ops'[1]) # InsertsSent(ops[1])) =>
            ~isDateBlocked(1, DayOf(formData[1].appointmentDate))]_vars

(***************************************************************************)
(* Claim about the list after overlapping handlers, under SpecPageOk.      *)
(***************************************************************************)
\* C26: when no save, delete or re-fetch is in flight, the local list holds
\* exactly the records of the store.
C26_ListIsStoreWhenQuiet ==
    ops[1] = {} => Range(appointments[1]) = srvAppointments

(***************************************************************************)
(* Claim about overlapping deletes, under SpecDeletes.                     *)
(***************************************************************************)
\* C27: the local list never holds two records of one id.
C27_NoIdTwiceInList == EachIdOnce(appointments[1])

(***************************************************************************)
(* Claims about the slot toggles of the grid, under SpecSlots.             *)
(***************************************************************************)
\* C28: when no toggle is in flight, the local rule list holds exactly the
\* rules of the store.
C28_RulesAreStoreWhenQuiet ==
    gridOps = {} => Range(grid.blockedRules) = srvRules

\* C29: a toggle that completes leaves, for every region other than its
\* column's, the answer of isTimeBlocked on its date and time as it was.
OtherRegionsKeepSlot(o) ==
    \A r \in SlotStates \ {o.slot[2]} :
        isTimeBlocked(o.slot[1], r, formatDate(grid.selectedDate), grid.blockedRules)
            = isTimeBlocked(o.slot[1], r, formatDate(grid.selectedDate), grid.blockedRules')

C29_ToggleKeepsOtherRegions ==
    [][\A o \in gridOps :
            (o.kind = "toggle" /\ o \notin gridOps') => OtherRegionsKeepSlot(o)]_vars

(***************************************************************************)
(* Claim about the commit and slot toggles, under SpecModalSlots.  The     *)
(* calendar of the modal toggles whole-day rules only (line 235 keeps      *)
(* every rule with a time), so a rule toggled off inside the modal is a    *)
(* whole-day rule.                                                         *)
(***************************************************************************)
\* C30: the delete of a commit removes from the store only whole-day rules,
\* never a slot rule, which the modal cannot toggle off.
C30_CommitDeletesOnlyToggledOff ==
    [][(\E o \in gridOps : /\ o.kind = "commit" /\ o.phase = "rules_delete_sent"
                           /\ o \notin gridOps')
            => \A r \in srvRules \ srvRules' : r.time = Empty]_vars

====
